---- MODULE Spec2Model ----
(***************************************************************************)
(* A model of the streaming dictation pipeline of openscribe:              *)
(*   - the text assembler of the providers (_assemble_text_chunk and its   *)
(*     helpers), on strings represented as sequences of one-character      *)
(*     strings;                                                            *)
(*   - the VAD chunker (VADChunker) under a wall clock in milliseconds;    *)
(*   - the provider's streaming worker, queue and single-shot call.        *)
(* Each part has its own specification (SpecAsm, SpecVad, ...); the        *)
(* variables of the other parts stay at their initial values.              *)
(***************************************************************************)
EXTENDS Integers, Sequences, FiniteSets, TLC

VARIABLES
    text_buffer,    \* FasterWhisperProvider.text_buffer (the transcript)
    asm_deltas,     \* concatenation of every delta returned this session
    asm_prev,       \* text_buffer before the last _assemble_text_chunk call
    asm_new,        \* the hypothesis passed to the last call
    asm_delta,      \* the delta returned by the last call
    asm_called,     \* TRUE once _assemble_text_chunk has been called
    asm_words,      \* number of segments fed so far (bounds the session)
    enable_overlap_detection,  \* FasterWhisperProvider.enable_overlap_detection
    \* ---- VADChunker ----
    vad_cfg,          \* min_chunk_duration, max_chunk_duration, silence_timeout (ms)
    is_speaking,      \* VADChunker.is_speaking
    speech_buffer,    \* VADChunker.speech_buffer: the buffered frames
    last_speech_time, \* VADChunker.last_speech_time (ms)
    chunk_start_time, \* VADChunker.chunk_start_time (ms)
    now,              \* time.time() (ms)
    chunks,           \* the chunks handed to chunk_callback, in order
    fed,              \* number of frames process_audio has classified
    vad_op,           \* the last operation, the buffer before it, its result
    \* ---- AudioRecorder (streaming) ----
    audio_buffer,       \* AudioRecorder.audio_buffer: frames not yet polled
    last_process_time,  \* last_process_time of _streaming_processor (ms)
    wake_time,          \* when the sleep of _streaming_processor ends (ms)
    delivered,          \* frames the audio callback has delivered
    rec_cfg,            \* sample_rate of the recorder, frame_duration_ms of its chunker
    streaming,          \* AudioRecorder.streaming
    rec_stop_event,     \* AudioRecorder.streaming_stop_event is set
    stream_running,     \* the sounddevice stream is started
    vad_chunker,        \* AudioRecorder.vad_chunker is not None
    rec_lock,           \* who holds AudioRecorder.buffer_lock
    cb_pc,              \* where the audio callback is
    proc_pc,            \* where the thread running AudioRecorder._streaming_processor is
    proc_batch,         \* the frames of the batch process_audio has still to classify
    start_result,       \* what start_recording / start_streaming_recording returned
    \* ---- AudioRecorder (batch) ----
    recording,      \* AudioRecorder.recording
    audio_queue,    \* AudioRecorder.audio_queue: the frames put and not yet drained
    rec_pc,         \* where the thread inside stop_recording is
    cb_frame,       \* the frame _audio_callback is about to put, 0 if none
    captured,       \* frames the input stream has handed to _audio_callback
    since_start,    \* frames delivered while recording since the last start_recording
    start_op,       \* the last start call and whether the device could be opened
    stop_op,        \* the last stop_recording call and what it returned
    stream,         \* AudioRecorder.stream: the stream it refers to, 0 for None
    open_streams,   \* the input streams opened and not closed, each with
                    \* whether it was started
    \* ---- provider: streaming transcription ----
    streaming_active,       \* FasterWhisperProvider.streaming_active
    streaming_stop_event,   \* streaming_stop_event is set
    streaming_callback,     \* streaming_callback is not None
    transcription_queue,    \* chunks waiting in transcription_queue
    processing_lock,        \* the thread holding processing_lock, 0 if free
    transcription_thread,   \* the thread transcription_thread refers to, 0 if None
    thread_pc,              \* where each thread running _streaming_processor is
    thread_chunk,           \* the chunk each thread took from the queue
    submitted,              \* calls of process_audio_chunk so far
    ctl_pc,                 \* where the controlling thread is
    provider,             \* the provider class of the instance
    previous_context,       \* FasterWhisperProvider.previous_context
    thread_elapsed,         \* clock steps each thread has spent in its backend call
    worker_op,              \* what the last chunk processed by a thread came to
    buffer_lock,            \* the thread holding buffer_lock, 0 if free
    thread_text,            \* the text each thread has transcribed and not yet assembled
    ctx_prev,               \* previous_context before the last _update_context call
    ctx_new,                \* the text passed to the last _update_context call
    ctx_calls,              \* _update_context calls made on their own
    chunk_session,          \* the session in which each chunk was submitted
    put_pending,            \* the chunk process_audio_chunk is about to put, 0 if none
    overlap_buffer,         \* FasterWhisperProvider.overlap_buffer, as one array
    audio_op,               \* the last call of _transcribe_chunk: its chunk, the
                            \* window before it and the audio sent to the backend
    \* ---- provider: single-shot transcription ----
    call_pc,        \* where the caller of transcribe_audio is
    call_timeout,   \* the timeout argument in clock steps, 0 for None
    call_elapsed,   \* clock steps since the call was made
    call_result,    \* what the caller got
    backend_hangs,  \* the backend call never returns
    backend_done,   \* the backend call has returned
    \* ---- startup and configuration of the engine ----
    config,             \* Config: whisper_provider, transcription_language, model_size
    whisper_cli,        \* shutil.which("whisper-cli") is not None
    startup,            \* "pending", "running" or "failed"
    engine,             \* the class of the engine object, "none" before startup
    startup_report,     \* what startup told the user
    language_config,    \* language_config of the engine
    model_size,         \* model_size of the engine
    current_model_name, \* current_model_name of the engine
    configure_result    \* how the last configure_language call ended

asmVars == <<text_buffer, asm_deltas, asm_prev, asm_new, asm_delta,
             asm_called, asm_words, enable_overlap_detection>>

vadVars == <<vad_cfg, is_speaking, speech_buffer, last_speech_time,
             chunk_start_time, now, chunks, fed, vad_op>>

batchVars == <<recording, audio_queue, rec_pc, cb_frame, captured,
               since_start, start_op, stop_op>>

hwVars == <<stream, open_streams>>

recCtlVars == <<rec_cfg, hwVars, streaming, rec_stop_event, stream_running,
                vad_chunker, rec_lock, cb_pc, proc_pc, proc_batch,
                start_result, batchVars>>

recVars == <<audio_buffer, last_process_time, wake_time, delivered,
             recCtlVars>>

lockVars == <<buffer_lock, thread_text, ctx_prev, ctx_new, ctx_calls>>

sessVars == <<chunk_session, put_pending, overlap_buffer, audio_op>>

provVars == <<streaming_active, streaming_stop_event, streaming_callback,
              transcription_queue, processing_lock, transcription_thread,
              thread_pc, thread_chunk, submitted, ctl_pc, provider,
              previous_context, thread_elapsed, worker_op, lockVars,
              sessVars>>

engVars == <<config, whisper_cli, startup, engine, startup_report,
             language_config, model_size, current_model_name, configure_result>>

callVars == <<call_pc, call_timeout, call_elapsed, call_result, backend_hangs,
              backend_done, engVars>>

vars == <<asmVars, vadVars, recVars, provVars, callVars>>

(***************************************************************************)
(* Bounds of the model.                                                    *)
(***************************************************************************)
\* segments (words) fed to the assembler in one session
MaxSessionWords == 5
\* frames classified by the chunker in one run
MaxFrames == 4
\* clock steps of the chunker's run
MaxClockSteps == 4
\* milliseconds of one clock step
TickMs == 500
\* threads that ever run _streaming_processor
MaxThreads == 2
\* calls of process_audio_chunk
MaxChunks == 2
\* clock steps a single-shot call is observed for
MaxCallSteps == 8
\* the longest timeout argument, in clock steps
MaxTimeoutSteps == 3
\* clock steps a streaming backend call is observed for
MaxBackendSteps == 2
\* samples in one second of a chunk's audio
overlap_samples == 2

Threads == 1..MaxThreads

(***************************************************************************)
(* Strings.  A string is a sequence of one-character strings.              *)
(***************************************************************************)
UpperLetters == <<"A","B","C","D","E","F","G","H","I","J","K","L","M",
                  "N","O","P","Q","R","S","T","U","V","W","X","Y","Z">>
LowerLetters == <<"a","b","c","d","e","f","g","h","i","j","k","l","m",
                  "n","o","p","q","r","s","t","u","v","w","x","y","z">>

\* the characters of the model: the letters, whitespace and punctuation
Chars == {UpperLetters[i] : i \in 1..26} \cup {LowerLetters[i] : i \in 1..26}
         \cup {" ", ".", ",", "!", "?", ";", ":", "-"}

\* str.lower() on each character
LowerOf ==
    [c \in Chars |->
        IF \E i \in 1..26 : UpperLetters[i] = c
        THEN LowerLetters[CHOOSE i \in 1..26 : UpperLetters[i] = c]
        ELSE c]

LowerChar(c) == LowerOf[c]

\* (mutant) a case-sensitive comparison: the text is not lowered
Lower_CaseSensitive(s) == s

\* str.lower()
Lower(s) == [i \in 1..Len(s) |-> LowerChar(s[i])]

IsSpace(c) == c = " "

\* (mutant) the text is taken as it is
Strip_Missing(s) == s

\* str.strip()
RECURSIVE LStrip(_)
LStrip(s) == IF s # <<>> /\ IsSpace(Head(s)) THEN LStrip(Tail(s)) ELSE s

RECURSIVE RStrip(_)
RStrip(s) ==
    IF s # <<>> /\ IsSpace(s[Len(s)])
    THEN RStrip(SubSeq(s, 1, Len(s) - 1)) ELSE s

Strip(s) == RStrip(LStrip(s))

\* str.split(): the maximal runs of non-whitespace characters
\* where the words of s start, and where the word starting at i ends
WordStarts(s) ==
    {i \in 1..Len(s) : ~IsSpace(s[i]) /\ (i = 1 \/ IsSpace(s[i - 1]))}

WordEnd(s, i) ==
    CHOOSE j \in i..Len(s) :
        /\ \A k \in i..j : ~IsSpace(s[k])
        /\ (j = Len(s) \/ IsSpace(s[j + 1]))

Split(s) ==
    LET starts == WordStarts(s)
        nth(k) == CHOOSE i \in starts :
                      Cardinality({j \in starts : j < i}) = k - 1
    IN [k \in 1..Cardinality(starts) |->
            SubSeq(s, nth(k), WordEnd(s, nth(k)))]

\* " ".join(words)
RECURSIVE Join(_)
Join(ws) ==
    IF ws = <<>> THEN <<>>
    ELSE IF Len(ws) = 1 THEN ws[1]
    ELSE ws[1] \o <<" ">> \o Join(Tail(ws))

\* str.replace(old, new) for a two-character old and a one-character new:
\* non-overlapping occurrences, left to right
RECURSIVE Replace2(_, _, _)
Replace2(s, old, new) ==
    IF Len(s) < 2 THEN s
    ELSE IF SubSeq(s, 1, 2) = old
         THEN new \o Replace2(SubSeq(s, 3, Len(s)), old, new)
         ELSE <<Head(s)>> \o Replace2(Tail(s), old, new)

\* str.endswith(" ")
EndsWithSpace(s) == s # <<>> /\ s[Len(s)] = " "

(***************************************************************************)
(* The text assembler (faster_whisper_provider.py, identical in            *)
(* whisper_cpp_provider.py).                                               *)
(***************************************************************************)
\* the characters before which no separating space is inserted
NoSpacePunct == {".", ",", "!", "?", ";", ":"}

min_remaining_words == 2
max_overlap_cap == 8

\* int(len(new_words) * 0.7)
MaxOverlapPercentOf(n) == (7 * n) \div 10

Min3(a, b, c) ==
    IF a <= b THEN (IF a <= c THEN a ELSE c) ELSE (IF b <= c THEN b ELSE c)

_preprocess_text(text) ==
    IF text = <<>> THEN <<>>
    ELSE LET c0 == Join(Split(text))
             c1 == Replace2(c0, <<" ", " ">>, <<" ">>)
             c2 == Replace2(c1, <<" ", ".">>, <<".">>)
             c3 == Replace2(c2, <<" ", ",">>, <<",">>)
             c4 == Replace2(c3, <<" ", "!">>, <<"!">>)
             c5 == Replace2(c4, <<" ", "?">>, <<"?">>)
         IN  Strip(c5)

\* (mutant) the search without the min_remaining_words check
RECURSIVE OverlapSearch_NoFloor(_, _, _)
OverlapSearch_NoFloor(prev_words, new_words_lower, k) ==
    IF k <= 0 THEN 0
    ELSE IF SubSeq(prev_words, Len(prev_words) - k + 1, Len(prev_words))
            = SubSeq(new_words_lower, 1, k)
         THEN k
         ELSE OverlapSearch_NoFloor(prev_words, new_words_lower, k - 1)

\* the loop of _detect_and_remove_overlap: the first overlap_length, from k
\* downwards, that keeps min_remaining_words and matches; 0 when none does
RECURSIVE OverlapSearch(_, _, _)
OverlapSearch(prev_words, new_words_lower, k) ==
    IF k <= 0 THEN 0
    ELSE IF Len(new_words_lower) - k < min_remaining_words
         THEN OverlapSearch(prev_words, new_words_lower, k - 1)
         ELSE IF SubSeq(prev_words, Len(prev_words) - k + 1, Len(prev_words))
                 = SubSeq(new_words_lower, 1, k)
              THEN k
              ELSE OverlapSearch(prev_words, new_words_lower, k - 1)

\* the number of leading words _detect_and_remove_overlap removes
OverlapLength(previous_text, new_text) ==
    IF previous_text = <<>> \/ new_text = <<>> THEN 0
    ELSE LET prev_words == Split(Lower(Strip(previous_text)))
             new_words == Split(Strip(new_text))
             new_words_lower == [i \in 1..Len(new_words) |-> Lower(new_words[i])]
             max_overlap_words ==
                 Min3(Len(prev_words), MaxOverlapPercentOf(Len(new_words)),
                      max_overlap_cap)
         IN  OverlapSearch(prev_words, new_words_lower, max_overlap_words)

_detect_and_remove_overlap(previous_text, new_text) ==
    LET k == OverlapLength(previous_text, new_text)
        new_words == Split(Strip(new_text))
    IN  IF k = 0 THEN new_text
        ELSE Join(SubSeq(new_words, k + 1, Len(new_words)))

\* (mutant) the spacing rule of the older TranscriptionEngine: no space
\* after a transcript that ends with punctuation
NeedsSpace_AfterPunct(buffer, deduped_text) ==
    ~(buffer # <<>> /\ buffer[Len(buffer)] \in (NoSpacePunct \cup {" "}))

\* needs_space of _assemble_text_chunk
NeedsSpace(buffer, deduped_text) ==
    IF EndsWithSpace(buffer) THEN FALSE
    ELSE IF deduped_text # <<>> /\ deduped_text[1] \in NoSpacePunct THEN FALSE
    ELSE TRUE

\* (mutant) the separating space is appended to the buffer but left out of
\* the returned text
_assemble_text_chunk_BareDelta(buffer, new_text, overlap_enabled) ==
    IF new_text = <<>> THEN [buffer |-> buffer, delta |-> <<>>]
    ELSE LET cleaned_new == _preprocess_text(new_text) IN
         IF cleaned_new = <<>> THEN [buffer |-> buffer, delta |-> <<>>]
         ELSE IF buffer = <<>>
              THEN [buffer |-> cleaned_new, delta |-> cleaned_new]
              ELSE LET deduped_text ==
                           IF overlap_enabled
                           THEN _detect_and_remove_overlap(buffer, cleaned_new)
                           ELSE cleaned_new
                   IN  IF Strip(deduped_text) = <<>>
                       THEN [buffer |-> buffer, delta |-> <<>>]
                       ELSE IF NeedsSpace(buffer, deduped_text)
                            THEN [buffer |-> buffer \o <<" ">> \o deduped_text,
                                  delta |-> deduped_text]
                            ELSE [buffer |-> buffer \o deduped_text,
                                  delta |-> deduped_text]

\* _assemble_text_chunk: the new text_buffer and the returned delta
_assemble_text_chunk(buffer, new_text, overlap_enabled) ==
    IF new_text = <<>> THEN [buffer |-> buffer, delta |-> <<>>]
    ELSE LET cleaned_new == _preprocess_text(new_text) IN
         IF cleaned_new = <<>> THEN [buffer |-> buffer, delta |-> <<>>]
         ELSE IF buffer = <<>>
              THEN [buffer |-> cleaned_new, delta |-> cleaned_new]
              ELSE LET deduped_text ==
                           IF overlap_enabled
                           THEN _detect_and_remove_overlap(buffer, cleaned_new)
                           ELSE cleaned_new
                   IN  IF Strip(deduped_text) = <<>>
                       THEN [buffer |-> buffer, delta |-> <<>>]
                       ELSE IF NeedsSpace(buffer, deduped_text)
                            THEN [buffer |-> buffer \o <<" ">> \o deduped_text,
                                  delta |-> <<" ">> \o deduped_text]
                            ELSE [buffer |-> buffer \o deduped_text,
                                  delta |-> deduped_text]

(***************************************************************************)
(* The hypotheses fed to the assembler: the segment texts of one backend   *)
(* result joined by single spaces (an empty segment gives a leading,       *)
(* trailing or doubled space), and the fixed examples of the               *)
(* specification.                                                          *)
(***************************************************************************)
Segments == {<<>>, <<"a">>, <<"A">>, <<".">>}

SegmentLists(n) == [1..n -> Segments]

ExQuick == <<"t","h","e"," ","q","u","i","c","k"," ","b","r","o","w","n",
             " ","f","o","x">>
ExJumps == <<"b","r","o","w","n"," ","f","o","x"," ","j","u","m","p","s",
             " ","o","v","e","r">>
ExHello == <<"H","e","l","l","o",".">>
ExWorld == <<"w","o","r","l","d">>
ExQuickUpper == <<"B","r","o","w","n"," ","F","O","X"," ","J","u","m","p","s",
                  " ","O","v","e","r">>

ExDash == <<"-"," ","o","k">>

\* ten words "a", and thirteen words "A": more matching words than the cap
ExTenWords == Join([i \in 1..10 |-> <<"a">>])
ExThirteenWords == Join([i \in 1..13 |-> <<"A">>])

ExampleHyps == {ExQuick, ExJumps, ExHello, ExWorld, ExQuickUpper, ExDash,
                ExTenWords, ExThirteenWords}

AsmStart ==
    /\ text_buffer = <<>>
    /\ asm_deltas = <<>>
    /\ asm_prev = <<>>
    /\ asm_new = <<>>
    /\ asm_delta = <<>>
    /\ asm_called = FALSE
    /\ asm_words = 0
    /\ enable_overlap_detection \in BOOLEAN

\* the chunker before any frame (defined below)
VadIdle ==
    /\ vad_cfg = [min |-> 1000, max |-> 10000, silence |-> 500]
    /\ is_speaking = FALSE
    /\ speech_buffer = <<>>
    /\ last_speech_time = 0
    /\ chunk_start_time = 0
    /\ now = 0
    /\ chunks = <<>>
    /\ fed = 0
    /\ vad_op = [op |-> "init", pre |-> <<>>, ret |-> FALSE, emitted |-> 0,
                raised |-> FALSE]

\* no batch recording: the state after AudioRecorder.__init__
BatchIdle ==
    /\ recording = FALSE
    /\ audio_queue = <<>>
    /\ rec_pc = "idle"
    /\ cb_frame = 0
    /\ captured = 0
    /\ since_start = <<>>
    /\ start_op = [op |-> "none", device_ok |-> TRUE]
    /\ stop_op = [called |-> FALSE, was_recording |-> FALSE, ret_none |-> TRUE,
                  ret |-> <<>>, expected |-> <<>>]

\* no input stream has been opened
NoStream ==
    /\ stream = 0
    /\ open_streams = {}

\* the recorder while not streaming
RecCtlStart(cfg) ==
    /\ BatchIdle
    /\ NoStream
    /\ rec_cfg = cfg
    /\ streaming = FALSE
    /\ rec_stop_event = FALSE
    /\ stream_running = FALSE
    /\ vad_chunker = FALSE
    /\ rec_lock = "free"
    /\ cb_pc = "idle"
    /\ proc_pc = "none"
    /\ proc_batch = <<>>
    /\ start_result = "none"

RecCtlIdle == RecCtlStart([sample_rate |-> 16000, frame_duration_ms |-> 20])

RecIdle ==
    /\ audio_buffer = <<>>
    /\ last_process_time = 0
    /\ wake_time = 0
    /\ delivered = 0
    /\ RecCtlIdle

\* the recorder after a successful start_streaming_recording
RecCtlLive ==
    /\ BatchIdle
    /\ stream = 1
    /\ open_streams = {<<1, TRUE>>}
    /\ rec_cfg = [sample_rate |-> 16000, frame_duration_ms |-> 20]
    /\ streaming = TRUE
    /\ rec_stop_event = FALSE
    /\ stream_running = TRUE
    /\ vad_chunker = TRUE
    /\ rec_lock = "free"
    /\ cb_pc = "idle"
    /\ proc_pc = "sleep"
    /\ proc_batch = <<>>
    /\ start_result = "True"

\* _transcribe_chunk has not been called
NoAudio == [chunk |-> <<>>, before |-> <<>>, sent |-> <<>>]

\* the provider p after __init__
ProvStart(p) ==
    /\ provider = p
    /\ previous_context = <<>>
    /\ thread_elapsed = [t \in Threads |-> 0]
    /\ worker_op = [outcome |-> "none", called |-> FALSE]
    /\ chunk_session = [c \in 1..MaxChunks |-> 0]
    /\ put_pending = 0
    /\ overlap_buffer = <<>>
    /\ audio_op = NoAudio
    /\ buffer_lock = 0
    /\ thread_text = [t \in Threads |-> <<>>]
    /\ ctx_prev = <<>>
    /\ ctx_new = <<>>
    /\ ctx_calls = 0
    /\ streaming_active = FALSE
    /\ streaming_stop_event = FALSE
    /\ streaming_callback = FALSE
    /\ transcription_queue = <<>>
    /\ processing_lock = 0
    /\ transcription_thread = 0
    /\ thread_pc = [t \in Threads |-> "unstarted"]
    /\ thread_chunk = [t \in Threads |-> 0]
    /\ submitted = 0
    /\ ctl_pc = "idle"

ProvIdle == ProvStart("faster_whisper")

\* no single-shot call
\* the engine before startup, with the default Config
EngIdle ==
    /\ config = [whisper_provider |-> "faster-whisper",
                 transcription_language |-> "auto", model_size |-> "small"]
    /\ whisper_cli = FALSE
    /\ startup = "pending"
    /\ engine = "none"
    /\ startup_report = "none"
    /\ language_config = "auto"
    /\ model_size = "small"
    /\ current_model_name = <<>>
    /\ configure_result = "none"

CallIdle ==
    /\ EngIdle
    /\ call_pc = "idle"
    /\ call_timeout = 0
    /\ call_elapsed = 0
    /\ call_result = "none"
    /\ backend_hangs = FALSE
    /\ backend_done = FALSE

AsmInit == AsmStart /\ VadIdle /\ RecIdle /\ ProvIdle /\ CallIdle

\* one call of _assemble_text_chunk(h)
AssembleCall(h, cost) ==
    LET r == _assemble_text_chunk(text_buffer, h, enable_overlap_detection) IN
    /\ text_buffer' = r.buffer
    /\ asm_deltas' = asm_deltas \o r.delta
    /\ asm_prev' = text_buffer
    /\ asm_new' = h
    /\ asm_delta' = r.delta
    /\ asm_called' = TRUE
    /\ asm_words' = asm_words + cost
    /\ UNCHANGED <<enable_overlap_detection, vadVars, recVars, provVars, callVars>>

\* a hypothesis made of n segments
AssembleSegments ==
    \E n \in 1..MaxSessionWords :
        /\ asm_words + n <= MaxSessionWords
        /\ \E ws \in SegmentLists(n) : AssembleCall(Join(ws), n)

\* a session made of the specification's examples: one of them as the first
\* hypothesis, then one as the second (they use up the session's words)
AssembleExample ==
    /\ asm_words = 0 \/ text_buffer \in ExampleHyps
    /\ \E h \in ExampleHyps : AssembleCall(h, MaxSessionWords - asm_words)

AsmNext == AssembleSegments \/ AssembleExample

SpecAsm == AsmInit /\ [][AsmNext]_vars

(***************************************************************************)
(* Claims about the text assembler (checked under SpecAsm).                *)
(***************************************************************************)
\* words compared without regard to case
SameFold(w1, w2) ==
    /\ Len(w1) = Len(w2)
    /\ \A i \in 1..Len(w1) : LowerOf[w1[i]] = LowerOf[w2[i]]

\* the first k words of nw equal, case-insensitively, the last k words of pw
TailMatches(pw, nw, k) ==
    /\ k <= Len(pw)
    /\ k <= Len(nw)
    /\ \A i \in 1..k : SameFold(pw[Len(pw) - k + i], nw[i])

MaxOf(S) == CHOOSE x \in S : \A y \in S : y <= x

\* the normalized hypothesis of the last call and its words
LastCleaned == _preprocess_text(asm_new)
LastWords == Split(LastCleaned)
PrevWords == Split(asm_prev)

\* the last call appended to a non-empty transcript
LastAppended == asm_called /\ asm_prev # <<>> /\ LastCleaned # <<>>

\* the delta without its separating space
DeltaBody == IF asm_delta # <<>> /\ asm_delta[1] = " " THEN Tail(asm_delta)
             ELSE asm_delta

\* C1: the concatenation of all returned deltas of a session, in call order,
\* equals the transcript (text_buffer) exactly.
Thm_C1_RoundTrip == asm_deltas = text_buffer

\* C1 witness: a third-or-later state of a session in which an overlap was
\* removed and a spaced delta appended
Wit_C1_RoundTrip ==
    /\ LastAppended
    /\ enable_overlap_detection
    /\ OverlapLength(asm_prev, LastCleaned) > 0
    /\ asm_delta # <<>>
    /\ asm_delta[1] = " "
    /\ asm_deltas = asm_prev \o asm_delta

\* the hypothesis's words are identical to the last words of the transcript
IsTailDuplicate ==
    /\ LastAppended
    /\ Len(LastWords) <= Len(PrevWords)
    /\ SubSeq(PrevWords, Len(PrevWords) - Len(LastWords) + 1, Len(PrevWords))
       = LastWords

\* C2 (as stated): a hypothesis whose words are identical to the current tail
\* of the transcript returns an empty delta and leaves the transcript unchanged.
Orig_C2_Idempotent ==
    (enable_overlap_detection /\ IsTailDuplicate)
        => (asm_delta = <<>> /\ text_buffer = asm_prev)

\* C2 (amended): a hypothesis identical to the transcript tail does not give an
\* empty delta: at most int(0.7 n) of its n words are stripped and at least 2
\* remain (all of them when n <= 2), and the remainder is appended; the delta
\* is empty, and the transcript unchanged, exactly when the hypothesis
\* normalizes to the empty string.
Thm_C2_DuplicateKept ==
    asm_called =>
        /\ (asm_delta = <<>>) <=> (LastCleaned = <<>>)
        /\ (asm_delta = <<>>) => (text_buffer = asm_prev)
        /\ IsTailDuplicate =>
              LET n == Len(LastWords)
                  kept == Len(Split(asm_delta))
              IN  /\ kept >= (IF n < 2 THEN n ELSE 2)
                  /\ n - kept <= (7 * n) \div 10
                  /\ text_buffer = asm_prev \o asm_delta

Wit_C2_DuplicateKept ==
    /\ enable_overlap_detection
    /\ IsTailDuplicate
    /\ Len(LastWords) = 2
    /\ SameFold(LastWords[1], LastWords[2])
    /\ asm_delta = <<" ">> \o LastCleaned

\* the overlap length the claim C3 describes: the longest k in
\* 1..min(prev_word_count, 0.7 x new_word_count, 8) whose words match
ClaimedOverlap ==
    MaxOf({0} \cup {k \in 1..max_overlap_cap :
                      /\ k <= Len(PrevWords)
                      /\ 10 * k <= 7 * Len(LastWords)
                      /\ TailMatches(PrevWords, LastWords, k)})

\* the same, skipping the lengths that leave fewer than 2 words
FlooredOverlap ==
    MaxOf({0} \cup {k \in 1..max_overlap_cap :
                      /\ k <= Len(PrevWords)
                      /\ 10 * k <= 7 * Len(LastWords)
                      /\ Len(LastWords) - k >= 2
                      /\ TailMatches(PrevWords, LastWords, k)})

DeltaJumpsOver == <<" ","j","u","m","p","s"," ","o","v","e","r">>

\* C3 (as stated): from a non-empty transcript, the longest matching word
\* sequence of length min(prev_word_count, 0.7 x new_word_count, 8) down to 1
\* is removed from the hypothesis and the delta is the remaining words.
Orig_C3_LongestOverlap ==
    (LastAppended /\ enable_overlap_detection) =>
        Split(asm_delta) =
            SubSeq(LastWords, ClaimedOverlap + 1, Len(LastWords))

\* C3 (amended): with overlap detection enabled and a non-empty transcript, the
\* longest matching word sequence among the lengths min(prev_word_count,
\* 0.7 x new_word_count, 8) down to 1 that leave at least 2 words of the
\* hypothesis is removed, and the delta is the remaining words in their
\* original case; "the quick brown fox" then "brown fox jumps over" gives
\* " jumps over".
Thm_C3_FlooredOverlap ==
    /\ (LastAppended /\ enable_overlap_detection) =>
          /\ Split(asm_delta) =
                SubSeq(LastWords, FlooredOverlap + 1, Len(LastWords))
          /\ DeltaBody = Join(Split(asm_delta))
    /\ (asm_called /\ enable_overlap_detection
        /\ asm_prev = ExQuick /\ asm_new = ExJumps)
          => asm_delta = DeltaJumpsOver

Wit_C3_FlooredOverlap ==
    /\ asm_called
    /\ enable_overlap_detection
    /\ asm_prev = ExQuick
    /\ asm_new = ExJumps
    /\ FlooredOverlap = 2
    /\ asm_delta = DeltaJumpsOver

\* the number of leading words the last call stripped from the hypothesis
StrippedWords == Len(LastWords) - Len(Split(asm_delta))

\* C32: whenever overlap removal strips k words from an n-word normalized
\* hypothesis, k <= 8, k <= 0.7 * n, k <= the number of words of the
\* transcript and n - k >= 2; a hypothesis of fewer than 3 words is never
\* shortened.
Thm_C32_SafetyFloors ==
    (LastAppended /\ enable_overlap_detection) =>
        /\ StrippedWords >= 0
        /\ Split(asm_delta) = SubSeq(LastWords, StrippedWords + 1, Len(LastWords))
        /\ StrippedWords > 0 =>
              /\ StrippedWords <= 8
              /\ 10 * StrippedWords <= 7 * Len(LastWords)
              /\ StrippedWords <= Len(PrevWords)
              /\ Len(LastWords) - StrippedWords >= 2
        /\ Len(LastWords) < 3 => StrippedWords = 0

\* thirteen words after a transcript of ten: all of them match, nine would
\* be within 0.7 * n, and eight are stripped
Wit_C32_SafetyFloors ==
    /\ LastAppended
    /\ enable_overlap_detection
    /\ Len(PrevWords) = 10
    /\ Len(LastWords) = 13
    /\ TailMatches(PrevWords, LastWords, 9)
    /\ StrippedWords = 8

\* punctuation characters of the model's alphabet
PunctuationChars == {".", ",", "!", "?", ";", ":", "-"}

\* the last call appended a non-empty remainder to a non-empty transcript
AppendedRemainder == LastAppended /\ asm_delta # <<>>

\* exactly one separating space, or none, in front of the remainder
SpacedBy(noSpace) ==
    /\ text_buffer = asm_prev \o asm_delta
    /\ DeltaBody # <<>>
    /\ DeltaBody[1] # " "
    /\ (asm_delta[1] = " ") <=>
           ~(EndsWithSpace(asm_prev) \/ DeltaBody[1] \in noSpace)

\* C4 (as stated): the delta begins with exactly one separating space unless
\* the transcript ends with whitespace or the remainder begins with a
\* punctuation character; the delta is exactly the appended substring.
Orig_C4_Spacing == AppendedRemainder => SpacedBy(PunctuationChars)

DeltaWorld == <<" ","w","o","r","l","d">>

\* C4 (amended): the delta begins with exactly one separating space unless the
\* transcript ends with a space or the remainder begins with one of the
\* characters . , ! ? ; : (any other leading punctuation gets the space); the
\* delta is exactly the appended substring; "Hello." then "world" gives
\* " world".
Thm_C4_Spacing ==
    /\ AppendedRemainder => SpacedBy(NoSpacePunct)
    /\ (asm_called /\ asm_prev = ExHello /\ asm_new = ExWorld)
          => asm_delta = DeltaWorld

Wit_C4_Spacing ==
    /\ AppendedRemainder
    /\ asm_prev = ExHello
    /\ asm_new = ExWorld
    /\ asm_delta = DeltaWorld
    /\ text_buffer = ExHello \o DeltaWorld

(***************************************************************************)
(* The VAD chunker (vad_chunker.py).  Times are wall-clock milliseconds;   *)
(* a frame is identified by its position in the stream.                    *)
(***************************************************************************)
\* frame_duration_ms
FrameMs == 20

\* AudioRecorder's defaults
DefaultVadConfig == [min |-> 1000, max |-> 10000, silence |-> 500]

\* the configurations of the run (within the ranges config.py accepts)
VadConfigs ==
    { DefaultVadConfig,
      [min |-> 100, max |-> 1000, silence |-> 100],
      [min |-> 2000, max |-> 1000, silence |-> 500] }

\* the chunker's fields as one record
Chunker ==
    [is_speaking |-> is_speaking, speech_buffer |-> speech_buffer,
     last_speech_time |-> last_speech_time,
     chunk_start_time |-> chunk_start_time, chunks |-> chunks, ret |-> FALSE,
     cb_raises |-> FALSE, raised |-> FALSE]

\* (mutant) the minimum duration is not tested
EmitCondition_NoMin(cfg, silence_duration, chunk_duration) ==
    \/ silence_duration >= cfg.silence
    \/ chunk_duration >= cfg.max

\* (mutant) the maximum duration is not tested
EmitCondition_NoMax(cfg, silence_duration, chunk_duration) ==
    silence_duration >= cfg.silence /\ chunk_duration >= cfg.min

\* the emission condition of process_audio
EmitCondition(cfg, silence_duration, chunk_duration) ==
    \/ (silence_duration >= cfg.silence /\ chunk_duration >= cfg.min)
    \/ chunk_duration >= cfg.max

\* (mutant) the state is not reset after the callback
_trigger_chunk_NoReset(c, t, via) ==
    IF c.speech_buffer = <<>> THEN [c EXCEPT !.ret = FALSE]
    ELSE [c EXCEPT
            !.chunks = Append(@, [frames |-> c.speech_buffer, via |-> via,
                                  elapsed |-> t - c.chunk_start_time,
                                  silence |-> t - c.last_speech_time]),
            !.ret = TRUE]

\* (mutant) an exception of the callback leaves _trigger_chunk before the
\* reset
_trigger_chunk_Propagate(c, t, via) ==
    IF c.speech_buffer = <<>> THEN [c EXCEPT !.ret = FALSE]
    ELSE IF c.cb_raises
    THEN [c EXCEPT
            !.chunks = Append(@, [frames |-> c.speech_buffer, via |-> via,
                                  elapsed |-> t - c.chunk_start_time,
                                  silence |-> t - c.last_speech_time]),
            !.raised = TRUE,
            !.ret = FALSE]
    ELSE [c EXCEPT
            !.chunks = Append(@, [frames |-> c.speech_buffer, via |-> via,
                                  elapsed |-> t - c.chunk_start_time,
                                  silence |-> t - c.last_speech_time]),
            !.is_speaking = FALSE,
            !.speech_buffer = <<>>,
            !.ret = TRUE]

\* _trigger_chunk: hand the buffered frames to chunk_callback, whose
\* exception (c.cb_raises) is caught and printed, and reset
_trigger_chunk(c, t, via) ==
    IF c.speech_buffer = <<>> THEN [c EXCEPT !.ret = FALSE]
    ELSE [c EXCEPT
            !.chunks = Append(@, [frames |-> c.speech_buffer, via |-> via,
                                  elapsed |-> t - c.chunk_start_time,
                                  silence |-> t - c.last_speech_time]),
            !.raised = c.cb_raises,
            !.is_speaking = FALSE,
            !.speech_buffer = <<>>,
            !.ret = TRUE]

\* a frame loop that leaves silence frames out of the chunk
ProcessFrameAt_DropSilence(c, cfg, t, frame, is_speech) ==
    IF is_speech
    THEN [c EXCEPT
            !.is_speaking = TRUE,
            !.chunk_start_time = IF c.is_speaking THEN @ ELSE t,
            !.last_speech_time = t,
            !.speech_buffer = Append(@, frame)]
    ELSE IF c.is_speaking
         THEN IF EmitCondition(cfg, t - c.last_speech_time, t - c.chunk_start_time)
              THEN _trigger_chunk(c, t, "process_audio")
              ELSE c
         ELSE c

\* one iteration of the frame loop of process_audio, at time t
ProcessFrameAt(c, cfg, t, frame, is_speech) ==
    IF is_speech
    THEN [c EXCEPT
            !.is_speaking = TRUE,
            !.chunk_start_time = IF c.is_speaking THEN @ ELSE t,
            !.last_speech_time = t,
            !.speech_buffer = Append(@, frame)]
    ELSE IF c.is_speaking
         THEN LET b == [c EXCEPT !.speech_buffer = Append(@, frame)]
                  silence_duration == t - c.last_speech_time
                  chunk_duration == t - c.chunk_start_time
              IN  IF EmitCondition(cfg, silence_duration, chunk_duration)
                  THEN _trigger_chunk(b, t, "process_audio")
                  ELSE b
         ELSE c

\* force_chunk
force_chunk(c, t) ==
    IF c.speech_buffer # <<>> THEN _trigger_chunk(c, t, "force_chunk")
    ELSE [c EXCEPT !.ret = FALSE]

\* (mutant) reset empties the buffer and leaves is_speaking
reset_KeepSpeaking(c, t) ==
    [c EXCEPT !.speech_buffer = <<>>,
              !.last_speech_time = t, !.chunk_start_time = t]

\* reset
reset(c, t) ==
    [c EXCEPT !.is_speaking = FALSE, !.speech_buffer = <<>>,
              !.last_speech_time = t, !.chunk_start_time = t]

\* the chunker's fields after an operation that gave the record r
SetChunker(r, op) ==
    /\ is_speaking' = r.is_speaking
    /\ speech_buffer' = r.speech_buffer
    /\ last_speech_time' = r.last_speech_time
    /\ chunk_start_time' = r.chunk_start_time
    /\ chunks' = r.chunks
    /\ vad_op' = [op |-> op, pre |-> speech_buffer, ret |-> r.ret,
                  emitted |-> Len(chunks), raised |-> r.raised]

VadInit ==
    /\ AsmStart
    /\ enable_overlap_detection = TRUE
    /\ vad_cfg \in VadConfigs
    /\ is_speaking = FALSE
    /\ speech_buffer = <<>>
    /\ last_speech_time = 0
    /\ chunk_start_time = 0
    /\ now = 0
    /\ chunks = <<>>
    /\ fed = 0
    /\ vad_op = [op |-> "init", pre |-> <<>>, ret |-> FALSE, emitted |-> 0,
                raised |-> FALSE]
    /\ RecIdle
    /\ ProvIdle
    /\ CallIdle

\* process_audio classifies the next frame as speech
ProcessSpeechFrame ==
    /\ fed < MaxFrames
    /\ fed' = fed + 1
    /\ SetChunker(ProcessFrameAt(Chunker, vad_cfg, now, fed + 1, TRUE), "speech")
    /\ UNCHANGED <<vad_cfg, now, asmVars, recVars, provVars, callVars>>

\* process_audio classifies the next frame as silence
ProcessSilenceFrame ==
    /\ fed < MaxFrames
    /\ fed' = fed + 1
    /\ \E raises \in BOOLEAN :
          SetChunker(ProcessFrameAt([Chunker EXCEPT !.cb_raises = raises],
                                    vad_cfg, now, fed + 1, FALSE), "silence")
    /\ UNCHANGED <<vad_cfg, now, asmVars, recVars, provVars, callVars>>

\* force_chunk()
ForceChunk ==
    /\ \E raises \in BOOLEAN :
          SetChunker(force_chunk([Chunker EXCEPT !.cb_raises = raises], now),
                     "force")
    /\ UNCHANGED <<vad_cfg, now, fed, asmVars, recVars, provVars, callVars>>

\* reset()
ResetChunker ==
    /\ SetChunker(reset(Chunker, now), "reset")
    /\ UNCHANGED <<vad_cfg, now, fed, asmVars, recVars, provVars, callVars>>

\* the wall clock advances
ClockTick ==
    /\ now < MaxClockSteps * TickMs
    /\ now' = now + TickMs
    /\ vad_op' = [vad_op EXCEPT !.op = "tick"]
    /\ UNCHANGED <<vad_cfg, is_speaking, speech_buffer, last_speech_time,
                   chunk_start_time, chunks, fed, asmVars, recVars, provVars, callVars>>

VadNext ==
    \/ ProcessSpeechFrame
    \/ ProcessSilenceFrame
    \/ ForceChunk
    \/ ResetChunker
    \/ ClockTick

SpecVad == VadInit /\ [][VadNext]_vars

(***************************************************************************)
(* Claims about the chunker (checked under SpecVad).                       *)
(***************************************************************************)
MinOf(a, b) == IF a <= b THEN a ELSE b

\* the audio length of a chunk, in milliseconds
AudioMs(chunk) == Len(chunk.frames) * FrameMs

\* C5 (as stated): under any configuration a chunk emitted by process_audio
\* is never shorter than min_chunk_duration (neither the time since the chunk
\* started nor its audio reaches below the minimum).
Orig_C5_MinDuration ==
    \A i \in 1..Len(chunks) :
        chunks[i].via = "process_audio" =>
            \/ chunks[i].elapsed >= vad_cfg.min
            \/ AudioMs(chunks[i]) >= vad_cfg.min

\* C5 (amended): a chunk is emitted by process_audio only when the wall-clock
\* time since the chunk started is at least the smaller of min_chunk_duration
\* and max_chunk_duration (at least min_chunk_duration whenever
\* min_chunk_duration <= max_chunk_duration, or when it is emitted before
\* max_chunk_duration has elapsed); only force_chunk emits earlier.
Thm_C5_MinElapsed ==
    \A i \in 1..Len(chunks) :
        chunks[i].via = "process_audio" =>
            /\ chunks[i].elapsed >= MinOf(vad_cfg.min, vad_cfg.max)
            /\ chunks[i].elapsed < vad_cfg.max
                  => chunks[i].elapsed >= vad_cfg.min

\* C5 witness: the maximum rule emitted a chunk before the minimum, and
\* force_chunk emitted one before both
Wit_C5_MinElapsed ==
    /\ Len(chunks) = 2
    /\ vad_cfg.max < vad_cfg.min
    /\ \E i \in 1..2 :
          /\ chunks[i].via = "process_audio"
          /\ chunks[i].elapsed >= vad_cfg.max
          /\ chunks[i].elapsed < vad_cfg.min
    /\ \E j \in 1..2 :
          /\ chunks[j].via = "force_chunk"
          /\ chunks[j].elapsed < vad_cfg.max

\* C6 (as stated): once the time since chunk start has reached
\* max_chunk_duration, the frame then processed (speech or silence) emits the
\* chunk, so no frame is processed into a chunk that stays in progress
\* past max_chunk_duration.
Orig_C6_MaxDuration ==
    (vad_op.op \in {"speech", "silence"} /\ is_speaking)
        => now - chunk_start_time < vad_cfg.max

\* C8: force_chunk with a non-empty buffer hands all buffered frames to the
\* callback as one chunk, returns True and leaves the chunker idle with an
\* empty buffer, whatever the durations; with an empty buffer it emits
\* nothing and returns False.
Thm_C8_ForceChunk ==
    vad_op.op = "force" =>
        IF vad_op.pre # <<>>
        THEN /\ vad_op.ret
             /\ Len(chunks) = vad_op.emitted + 1
             /\ chunks[Len(chunks)].frames = vad_op.pre
             /\ chunks[Len(chunks)].via = "force_chunk"
             /\ ~is_speaking
             /\ speech_buffer = <<>>
        ELSE /\ ~vad_op.ret
             /\ Len(chunks) = vad_op.emitted
             /\ speech_buffer = <<>>

\* C8 witness: force_chunk flushed two frames before the minimum duration
\* and before the silence timeout
Wit_C8_ForceChunk ==
    /\ vad_op.op = "force"
    /\ Len(vad_op.pre) = 2
    /\ chunks # <<>>
    /\ chunks[Len(chunks)].frames = vad_op.pre
    /\ chunks[Len(chunks)].elapsed < vad_cfg.min
    /\ chunks[Len(chunks)].silence < vad_cfg.silence
    /\ ~is_speaking

\* C29: a silence frame processed while accumulating is appended; the
\* buffered chunk, that frame included, is emitted and the chunker goes idle
\* exactly when (time since the last speech frame >= silence_timeout and time
\* since chunk start >= min_chunk_duration) or time since chunk start >=
\* max_chunk_duration; otherwise the chunker stays accumulating.
Thm_C29_SilenceFrame ==
    (vad_op.op = "silence" /\ vad_op.pre # <<>>) =>
        IF \/ /\ now - last_speech_time >= vad_cfg.silence
              /\ now - chunk_start_time >= vad_cfg.min
           \/ now - chunk_start_time >= vad_cfg.max
        THEN /\ Len(chunks) = vad_op.emitted + 1
             /\ chunks[Len(chunks)].frames = Append(vad_op.pre, fed)
             /\ ~is_speaking
             /\ speech_buffer = <<>>
        ELSE /\ Len(chunks) = vad_op.emitted
             /\ is_speaking
             /\ speech_buffer = Append(vad_op.pre, fed)

\* a silence frame emitted the chunk through the maximum duration alone,
\* before the silence timeout
Wit_C29_SilenceFrame ==
    /\ vad_op.op = "silence"
    /\ vad_op.pre # <<>>
    /\ Len(chunks) = vad_op.emitted + 1
    /\ now - last_speech_time < vad_cfg.silence
    /\ now - chunk_start_time >= vad_cfg.max

\* C30: the buffer starts with the speech frame that found the chunker idle
\* and grows by every frame processed after it, silence included; a silence
\* frame processed while idle goes into no chunk; so every chunk is a run of
\* consecutive frames in arrival order, the chunk emitted by a frame ends
\* with that frame, and after an emission the buffer is empty.
Thm_C30_ChunkFrames ==
    /\ \A i \in 1..Len(chunks) :
          /\ chunks[i].frames # <<>>
          /\ \A k \in 1..Len(chunks[i].frames) :
                chunks[i].frames[k] = chunks[i].frames[1] + k - 1
    /\ (vad_op.op = "speech") =>
          /\ speech_buffer = Append(vad_op.pre, fed)
          /\ is_speaking
          /\ Len(chunks) = vad_op.emitted
    /\ (vad_op.op = "silence" /\ vad_op.pre = <<>>) =>
          /\ speech_buffer = <<>>
          /\ ~is_speaking
          /\ Len(chunks) = vad_op.emitted
          /\ \A i \in 1..Len(chunks) :
                \A k \in 1..Len(chunks[i].frames) : chunks[i].frames[k] # fed
    /\ (vad_op.op = "silence" /\ vad_op.pre # <<>>) =>
          \/ /\ Len(chunks) = vad_op.emitted
             /\ speech_buffer = Append(vad_op.pre, fed)
          \/ /\ Len(chunks) = vad_op.emitted + 1
             /\ chunks[Len(chunks)].frames = Append(vad_op.pre, fed)
             /\ speech_buffer = <<>>
             /\ ~is_speaking

\* silence while idle, then speech, speech and the silence frame that
\* emitted the chunk of frames 2 to 4
Wit_C30_ChunkFrames ==
    /\ vad_op.op = "silence"
    /\ Len(chunks) = 1
    /\ chunks[1].via = "process_audio"
    /\ chunks[1].frames = <<2, 3, 4>>
    /\ speech_buffer = <<>>

\* C33: is_speaking is set exactly when the speech buffer holds frames,
\* after any sequence of process_audio, force_chunk and reset calls.
Thm_C33_SpeakingIffBuffered == is_speaking <=> speech_buffer # <<>>

\* the chunker accumulates again after a chunk was emitted and after a reset
\* dropped the frames buffered then
Wit_C33_SpeakingIffBuffered ==
    /\ is_speaking
    /\ speech_buffer = <<4>>
    /\ Len(chunks) = 1
    /\ chunks[1].frames = <<1>>

\* C34: when the chunk callback raised during an emission, the chunk was
\* handed over once, the call returned as for any emission, the buffer is
\* empty and the chunker idle; no frame is ever part of two chunks.
Thm_C34_CallbackErrorAbsorbed ==
    /\ (vad_op.raised /\ vad_op.op \in {"silence", "force"}) =>
          /\ vad_op.ret
          /\ ~is_speaking
          /\ speech_buffer = <<>>
          /\ Len(chunks) = vad_op.emitted + 1
    /\ \A i, j \in 1..Len(chunks) :
          i < j => \A a \in 1..Len(chunks[i].frames),
                      b \in 1..Len(chunks[j].frames) :
                         chunks[i].frames[a] < chunks[j].frames[b]

\* the callback raised on the second chunk, made of the frames that came
\* after the first one, and the chunker is idle again
Wit_C34_CallbackErrorAbsorbed ==
    /\ vad_op.raised
    /\ vad_op.op = "silence"
    /\ Len(chunks) = 2
    /\ chunks[1].frames = <<1, 2>>
    /\ chunks[2].frames = <<3, 4>>
    /\ ~is_speaking

(***************************************************************************)
(* Live capture (audio_recorder.py): the audio callback delivers one frame *)
(* every FrameMs of wall-clock time, _streaming_processor polls the        *)
(* buffer and passes each batch to VADChunker.process_audio.  The run is   *)
(* the scenario of 2.0 s of speech frames followed by 0.6 s of silence     *)
(* frames under the default configuration.                                 *)
(***************************************************************************)
\* process_interval of _streaming_processor (ms)
ProcessIntervalMs == 100
\* time.sleep(0.05) of _streaming_processor (ms)
SleepMs == 50
\* the step of the live clock, and how far a sleep may overshoot
LiveStepMs == FrameMs \div 2
SleepJitterMs == LiveStepMs

ScenarioSpeechFrames == 2000 \div FrameMs
ScenarioSilenceFrames == 600 \div FrameMs
ScenarioFrames == ScenarioSpeechFrames + ScenarioSilenceFrames
\* the run ends once the last frame has been polled
LiveEndMs == ScenarioFrames * FrameMs + 2 * ProcessIntervalMs

\* the classification of the scenario's frames
IsSpeechFrame(frame) == frame <= ScenarioSpeechFrames

\* process_audio(batch) at time t: the frame loop over the batch
RECURSIVE process_audio(_, _, _, _)
process_audio(c, cfg, t, batch) ==
    IF batch = <<>> THEN c
    ELSE process_audio(
             ProcessFrameAt(c, cfg, t, Head(batch), IsSpeechFrame(Head(batch))),
             cfg, t, Tail(batch))

LiveInit ==
    /\ AsmStart
    /\ enable_overlap_detection = TRUE
    /\ vad_cfg = DefaultVadConfig
    /\ is_speaking = FALSE
    /\ speech_buffer = <<>>
    /\ last_speech_time = 0
    /\ chunk_start_time = 0
    /\ now = 0
    /\ chunks = <<>>
    /\ fed = 0
    /\ vad_op = [op |-> "init", pre |-> <<>>, ret |-> FALSE, emitted |-> 0,
                raised |-> FALSE]
    /\ audio_buffer = <<>>
    /\ delivered = 0
    /\ RecCtlLive
    /\ ProvIdle
    /\ CallIdle
    \* the poll loop is already running when the speech starts, at any phase
    /\ wake_time \in {k * LiveStepMs : k \in 0..(SleepMs \div LiveStepMs)}
    /\ last_process_time \in {wake_time - SleepMs, wake_time - ProcessIntervalMs}

\* _audio_callback: the next frame is appended when it has been captured
AudioCallback ==
    /\ delivered < ScenarioFrames
    /\ now = (delivered + 1) * FrameMs
    /\ delivered' = delivered + 1
    /\ audio_buffer' = Append(audio_buffer, delivered + 1)
    /\ UNCHANGED <<last_process_time, wake_time, recCtlVars, vadVars, asmVars,
                   provVars, callVars>>

\* one iteration of the loop of _streaming_processor, then its sleep
PollIteration ==
    /\ now = wake_time
    /\ \E jitter \in {0, SleepJitterMs} : wake_time' = now + SleepMs + jitter
    /\ IF now - last_process_time >= ProcessIntervalMs
       THEN /\ last_process_time' = now
            /\ IF audio_buffer # <<>>
               THEN /\ SetChunker(process_audio(Chunker, vad_cfg, now, audio_buffer),
                                  "process_audio")
                    /\ fed' = fed + Len(audio_buffer)
                    /\ audio_buffer' = <<>>
               ELSE UNCHANGED <<is_speaking, speech_buffer, last_speech_time,
                                chunk_start_time, chunks, vad_op, fed,
                                audio_buffer>>
       ELSE UNCHANGED <<last_process_time, is_speaking, speech_buffer,
                        last_speech_time, chunk_start_time, chunks, vad_op,
                        fed, audio_buffer>>
    /\ UNCHANGED <<vad_cfg, now, delivered, recCtlVars, asmVars, provVars,
                   callVars>>

\* time passes while neither the callback nor the loop is due
LiveTick ==
    /\ now < LiveEndMs
    /\ now < wake_time
    /\ ~(delivered < ScenarioFrames /\ now = (delivered + 1) * FrameMs)
    /\ now' = now + LiveStepMs
    /\ UNCHANGED <<vad_cfg, is_speaking, speech_buffer, last_speech_time,
                   chunk_start_time, chunks, fed, vad_op, recVars, asmVars,
                   provVars, callVars>>

LiveNext == AudioCallback \/ PollIteration \/ LiveTick

SpecLive == LiveInit /\ [][LiveNext]_vars

\* every frame of the scenario has been delivered and polled
FeedDone == delivered = ScenarioFrames /\ audio_buffer = <<>>

\* the frames 1..n in the order of capture
FirstFrames(n) == [k \in 1..n |-> k]

\* the longest time between two polls of the buffer
MaxPollGapMs == 2 * (SleepMs + SleepJitterMs)

\* C7 (as stated): once the 2.0 s of speech frames and the 0.6 s of silence
\* frames have been fed in real time, exactly one chunk has been emitted and
\* its duration is between 2.0 s and 2.1 s.
Orig_C7_OneShortChunk ==
    FeedDone =>
        /\ Len(chunks) = 1
        /\ AudioMs(chunks[1]) >= ScenarioSpeechFrames * FrameMs
        /\ AudioMs(chunks[1]) <= ScenarioSpeechFrames * FrameMs + 100

\* C7 (amended): the scenario emits at most one chunk; an emitted chunk is
\* made of all the speech frames followed by the silence frames appended
\* until a poll saw the silence timeout elapsed, so its audio lasts between
\* speech + silence_timeout - one poll gap and the whole feed (2.4 s to
\* 2.6 s); when no poll saw the timeout elapsed before the feed ended, no
\* chunk is emitted and the whole feed stays buffered.
Thm_C7_LiveScenario ==
    /\ Len(chunks) <= 1
    /\ \A i \in 1..Len(chunks) :
          /\ chunks[i].via = "process_audio"
          /\ chunks[i].frames = FirstFrames(Len(chunks[i].frames))
          /\ chunks[i].silence >= vad_cfg.silence
          /\ AudioMs(chunks[i]) >= ScenarioSpeechFrames * FrameMs
                                     + vad_cfg.silence - MaxPollGapMs + FrameMs
          /\ AudioMs(chunks[i]) <= ScenarioFrames * FrameMs
    /\ (FeedDone /\ chunks = <<>>) =>
          /\ is_speaking
          /\ speech_buffer = FirstFrames(ScenarioFrames)

\* the whole feed has been polled and its chunk has been emitted
Wit_C7_LiveScenario ==
    /\ FeedDone
    /\ Len(chunks) = 1
    /\ Len(chunks[1].frames) > ScenarioSpeechFrames

(***************************************************************************)
(* Streaming transcription (faster_whisper_provider.py and                 *)
(* whisper_cpp_provider.py, which differ in the backend call only): the    *)
(* controlling thread starts, stops and restarts streaming, the recorder's *)
(* thread calls process_audio_chunk, and every started thread runs         *)
(* _streaming_processor.  A stop whose join timed out leaves its thread    *)
(* running; the next start clears the stop event, so that thread keeps     *)
(* looping next to the new one.  A clock step stands for 10 s of a backend *)
(* call, longer than the 3 s of the join.                                  *)
(***************************************************************************)
Providers == {"faster_whisper", "whisper_cpp"}

\* what the backend hears in a chunk: nothing, or an utterance
StreamHyps == {<<>>, ExHello}

\* the raw text of a backend result: also whitespace only, or padded
BackendTexts == StreamHyps \cup {<<" ">>, <<" ">> \o ExHello \o <<" ">>}

\* subprocess.run(..., timeout=10) of WhisperCppProvider._transcribe_chunk,
\* in clock steps
ChunkDeadlineSteps == 1

context_length == 50

\* _update_context: the words taken from the end while they fit
RECURSIVE ContextWords(_, _, _)
ContextWords(words, context_words, char_count) ==
    IF words = <<>> THEN context_words
    ELSE LET word == words[Len(words)] IN
         IF char_count + Len(word) + 1 <= context_length
         THEN ContextWords(SubSeq(words, 1, Len(words) - 1),
                           <<word>> \o context_words,
                           char_count + Len(word) + 1)
         ELSE context_words

\* (mutant) the context is never trimmed
_update_context_Untrimmed(previous, new_text) ==
    IF new_text = <<>> THEN previous
    ELSE Strip(previous \o <<" ">> \o new_text)

\* _update_context: nothing for an empty text; else the stripped
\* f"{previous_context} {new_text}", cut to its last words when it is longer
\* than context_length
_update_context(previous, new_text) ==
    IF new_text = <<>> THEN previous
    ELSE LET combined_context == Strip(previous \o <<" ">> \o new_text) IN
         IF Len(combined_context) > context_length
         THEN Join(ContextWords(Split(combined_context), <<>>, 0))
         ELSE combined_context

\* a lock is taken only while nobody holds it
LockFree_Ignored(lock) == TRUE

LockFree(lock) == lock = 0

\* `if assembled_text and self.streaming_callback`
CallbackDue(assembled_text, callback_set) ==
    assembled_text # <<>> /\ callback_set

\* the ways a chunk can fail
BackendFailures == {"error", "exit", "timeout"}
ChunkFailures == BackendFailures \cup {"callback_error"}

\* (mutant) a failed chunk ends the loop
AfterChunk_EndOnFailure(outcome) ==
    IF outcome \in ChunkFailures THEN "ended" ELSE "loop"

\* where _streaming_processor goes after a chunk: every exception is caught
\* inside the loop, which continues
AfterChunk(outcome) == "loop"

\* how a backend call that has run for `elapsed` steps can end
BackendEndings(p, elapsed) ==
    {"returned", "error"}
    \cup (IF p = "whisper_cpp" THEN {"exit"} ELSE {})
    \cup (IF p = "whisper_cpp" /\ elapsed >= ChunkDeadlineSteps
          THEN {"timeout"} ELSE {})

UnstartedThreads == {t \in Threads : thread_pc[t] = "unstarted"}

\* threads inside the backend call of _transcribe_chunk
InBackend == {t \in Threads : thread_pc[t] = "backend"}

StreamInit ==
    /\ AsmStart
    /\ enable_overlap_detection = TRUE
    /\ VadIdle
    /\ RecIdle
    /\ \E p \in Providers : ProvStart(p)
    /\ CallIdle

\* (mutant) a join without its timeout
JoinReturns_NoTimeout(thread_ended, timed_out) == thread_ended

\* thread.join(timeout=...) returns when the thread has ended or when the
\* timeout has run out
JoinReturns(thread_ended, timed_out) == thread_ended \/ timed_out

\* start_streaming_transcription; its caller goes on at pc_after
start_streaming_transcription(pc_after) ==
    /\ UnstartedThreads # {}
    /\ LET t == CHOOSE u \in UnstartedThreads :
                    \A v \in UnstartedThreads : u <= v IN
       /\ thread_pc' = [thread_pc EXCEPT ![t] = "loop"]
       /\ transcription_thread' = t
    /\ streaming_active' = TRUE
    /\ streaming_callback' = TRUE
    /\ streaming_stop_event' = FALSE
    /\ text_buffer' = <<>>
    /\ ctl_pc' = pc_after
    /\ UNCHANGED <<asm_deltas, asm_prev, asm_new, asm_delta, asm_called,
                   asm_words, enable_overlap_detection, transcription_queue,
                   processing_lock, thread_chunk, submitted, provider, sessVars, lockVars,
                   previous_context, thread_elapsed, worker_op,
                   vadVars, recVars, callVars>>

\* stop_streaming_transcription up to its join; its caller waits at pc_join
stop_streaming_transcription(pc_join) ==
    /\ streaming_active' = FALSE
    /\ streaming_stop_event' = TRUE
    /\ ctl_pc' = pc_join
    /\ UNCHANGED <<streaming_callback, transcription_queue, processing_lock,
                   transcription_thread, thread_pc, thread_chunk, submitted,
                   provider, sessVars, lockVars, previous_context, thread_elapsed, worker_op,
                   asmVars, vadVars, recVars, callVars>>

\* transcription_thread.join(timeout=3.0) returns: there is no thread to
\* join, the thread has ended, or the 3 s ran out while the thread was busy
\* with a chunk
TranscriptionJoinReturns ==
    JoinReturns(IF transcription_thread = 0 THEN TRUE
                ELSE thread_pc[transcription_thread] = "ended",
                IF transcription_thread = 0 THEN FALSE
                ELSE thread_pc[transcription_thread] \in {"lock", "backend"})

\* the rest of stop_streaming_transcription once the join has returned; its
\* caller goes on at pc_after
stop_streaming_transcription_joined(pc_after) ==
    /\ TranscriptionJoinReturns
    /\ ctl_pc' = pc_after
    /\ streaming_callback' = FALSE
    /\ text_buffer' = <<>>
    /\ previous_context' = <<>>
    /\ overlap_buffer' = <<>>
    /\ transcription_queue' = <<>>
    /\ UNCHANGED <<asm_deltas, asm_prev, asm_new, asm_delta, asm_called,
                   asm_words, enable_overlap_detection, streaming_active,
                   streaming_stop_event, processing_lock,
                   transcription_thread, thread_pc, thread_chunk, submitted,
                   provider, chunk_session, put_pending, audio_op, lockVars, thread_elapsed, worker_op,
                   vadVars, recVars, callVars>>

\* start_streaming_transcription
StartStreaming == ctl_pc = "idle" /\ start_streaming_transcription("idle")

\* stop_streaming_transcription up to its join
StopStreaming == ctl_pc = "idle" /\ stop_streaming_transcription("join")

\* the join of stop_streaming_transcription returns, then the rest of it
StopJoined == ctl_pc = "join" /\ stop_streaming_transcription_joined("idle")

\* start_streaming_transcription, called while no session is active
StartSession ==
    /\ ctl_pc = "idle"
    /\ ~streaming_active
    /\ start_streaming_transcription("idle")

\* process_audio_chunk
ProcessAudioChunk ==
    /\ submitted < MaxChunks
    /\ submitted' = submitted + 1
    /\ transcription_queue' = IF streaming_active
                              THEN Append(transcription_queue, submitted + 1)
                              ELSE transcription_queue
    /\ UNCHANGED <<streaming_active, streaming_stop_event, streaming_callback,
                   processing_lock, transcription_thread, thread_pc,
                   thread_chunk, ctl_pc, provider, sessVars, lockVars, previous_context,
                   thread_elapsed, worker_op,
                   asmVars, vadVars, recVars, callVars>>

\* _streaming_processor: the test of the while loop
WorkerTestStop(t) ==
    /\ thread_pc[t] = "loop"
    /\ thread_pc' = [thread_pc EXCEPT
                        ![t] = IF streaming_stop_event THEN "ended" ELSE "get"]
    /\ UNCHANGED <<streaming_active, streaming_stop_event, streaming_callback,
                   transcription_queue, processing_lock, transcription_thread,
                   thread_chunk, submitted, ctl_pc, provider, sessVars, lockVars,
                   previous_context, thread_elapsed, worker_op, asmVars, vadVars, recVars, callVars>>

\* _streaming_processor: transcription_queue.get(timeout=0.5) returns a chunk
\* or raises queue.Empty
WorkerGet(t) ==
    /\ thread_pc[t] = "get"
    /\ IF transcription_queue # <<>>
       THEN /\ thread_chunk' = [thread_chunk EXCEPT ![t] = Head(transcription_queue)]
            /\ transcription_queue' = Tail(transcription_queue)
            /\ thread_pc' = [thread_pc EXCEPT ![t] = "lock"]
       ELSE /\ thread_pc' = [thread_pc EXCEPT ![t] = "loop"]
            /\ UNCHANGED <<thread_chunk, transcription_queue>>
    /\ UNCHANGED <<streaming_active, streaming_stop_event, streaming_callback,
                   processing_lock, transcription_thread, submitted, ctl_pc,
                   provider, sessVars, lockVars, previous_context, thread_elapsed, worker_op,
                   asmVars, vadVars, recVars, callVars>>

\* _streaming_processor: with self.processing_lock, then the backend call
WorkerAcquire(t) ==
    /\ thread_pc[t] = "lock"
    /\ LockFree(processing_lock)
    /\ processing_lock' = t
    /\ thread_pc' = [thread_pc EXCEPT ![t] = "backend"]
    /\ thread_elapsed' = [thread_elapsed EXCEPT ![t] = 0]
    /\ UNCHANGED <<streaming_active, streaming_stop_event, streaming_callback,
                   transcription_queue, transcription_thread, thread_chunk,
                   submitted, ctl_pc, provider, sessVars, lockVars, previous_context, worker_op,
                   asmVars, vadVars, recVars, callVars>>

\* time passes inside the backend call: model.transcribe runs as long as it
\* takes, the whisper-cli subprocess until its timeout at the latest
WorkerBackendStep(t) ==
    /\ thread_pc[t] = "backend"
    /\ thread_elapsed[t] < MaxBackendSteps
    /\ provider = "whisper_cpp" => thread_elapsed[t] < ChunkDeadlineSteps
    /\ thread_elapsed' = [thread_elapsed EXCEPT ![t] = @ + 1]
    /\ UNCHANGED <<streaming_active, streaming_stop_event, streaming_callback,
                   transcription_queue, processing_lock, transcription_thread,
                   thread_pc, thread_chunk, submitted, ctl_pc, provider, sessVars, lockVars,
                   previous_context, worker_op,
                   asmVars, vadVars, recVars, callVars>>

\* the raw texts that hold no speech
BlankTexts == {raw \in BackendTexts : \A i \in 1..Len(raw) : IsSpace(raw[i])}

\* a backend call has ended in t, with the text `raw` when it returned:
\* _transcribe_chunk strips the text, updates the context and returns the
\* text, or None for a failure or an empty text; the text is assembled and
\* handed to the callback
FinishChunk(t, ending, raw, callback_raises) ==
    LET transcribed_text == IF ending = "returned" THEN Strip(raw) ELSE <<>>
        r == _assemble_text_chunk(text_buffer, transcribed_text,
                                  enable_overlap_detection)
        assembled_text == IF transcribed_text = <<>> THEN <<>> ELSE r.delta
        called == transcribed_text # <<>>
                  /\ CallbackDue(assembled_text, streaming_callback)
        outcome == IF ending # "returned" THEN ending
                   ELSE IF raw \in BlankTexts THEN "blank"
                   ELSE IF called /\ callback_raises THEN "callback_error"
                   ELSE "text"
    IN
    /\ callback_raises => called
    /\ previous_context' = IF transcribed_text = <<>> THEN previous_context
                           ELSE _update_context(previous_context, transcribed_text)
    /\ text_buffer' = IF transcribed_text = <<>> THEN text_buffer ELSE r.buffer
    /\ thread_pc' = [thread_pc EXCEPT ![t] = AfterChunk(outcome)]
    /\ worker_op' = [outcome |-> outcome, called |-> called]

\* _streaming_processor: the backend call ends (with a text, an exception, a
\* non-zero exit or the subprocess timeout); _transcribe_chunk strips the
\* text of a result and returns None for a failure
WorkerFinish(t) ==
    /\ thread_pc[t] = "backend"
    /\ \E ending \in BackendEndings(provider, thread_elapsed[t]) :
        IF ending = "returned"
        THEN \E raw \in BackendTexts, callback_raises \in BOOLEAN :
                FinishChunk(t, ending, raw, callback_raises)
        ELSE FinishChunk(t, ending, <<>>, FALSE)
    /\ processing_lock' = IF processing_lock = t THEN 0 ELSE processing_lock
    /\ thread_chunk' = [thread_chunk EXCEPT ![t] = 0]
    /\ thread_elapsed' = [thread_elapsed EXCEPT ![t] = 0]
    /\ UNCHANGED <<asm_deltas, asm_prev, asm_new, asm_delta, asm_called,
                   asm_words, enable_overlap_detection, streaming_active,
                   streaming_stop_event, streaming_callback,
                   transcription_queue, transcription_thread, submitted,
                   ctl_pc, provider, sessVars, lockVars, vadVars, recVars, callVars>>

StreamNext ==
    \/ StartStreaming
    \/ StopStreaming
    \/ StopJoined
    \/ ProcessAudioChunk
    \/ \E t \in Threads : WorkerTestStop(t)
    \/ \E t \in Threads : WorkerGet(t)
    \/ \E t \in Threads : WorkerAcquire(t)
    \/ \E t \in Threads : WorkerBackendStep(t)
    \/ \E t \in Threads : WorkerFinish(t)

SpecStream == StreamInit /\ [][StreamNext]_vars

\* C9: at every instant at most one chunk is inside a backend transcription
\* call, whatever the interleaving of process_audio_chunk, the steps of the
\* threads and start, stop and restart of streaming.
Thm_C9_SerializedDecoding ==
    /\ Cardinality(InBackend) <= 1
    /\ \A t \in InBackend : processing_lock = t /\ thread_chunk[t] # 0

\* streaming was restarted while the thread of the stopped session was still
\* in its backend call, and the thread of the new session waits for the lock
\* with a chunk of its own
Wit_C9_SerializedDecoding ==
    \E t, u \in Threads :
        /\ t # u
        /\ transcription_thread = u
        /\ thread_pc[t] = "backend"
        /\ thread_pc[u] = "lock"
        /\ thread_chunk[u] # 0

\* the threads take their steps, and a backend call that is going to
\* return does return
SpecStreamFair ==
    /\ SpecStream
    /\ \A t \in Threads :
          /\ WF_vars(WorkerTestStop(t))
          /\ WF_vars(WorkerGet(t))
          /\ SF_vars(WorkerAcquire(t))
          /\ WF_vars(WorkerFinish(t))

\* a thread leaves its backend call in this step
LeavesBackend(t) == thread_pc[t] = "backend" /\ thread_pc'[t] # "backend"

\* C11 (as stated): every backend call of a streaming chunk runs under the
\* deadline: no thread is still inside the call once the deadline has passed.
Orig_C11_ChunkDeadline ==
    \A t \in InBackend : thread_elapsed[t] <= ChunkDeadlineSteps

Thm_C13_BlankIsNoSpeech ==
    [][\A t \in Threads :
          (LeavesBackend(t) /\ worker_op'.outcome = "blank")
             => /\ ~worker_op'.called
                /\ text_buffer' = text_buffer
                /\ previous_context' = previous_context
                /\ thread_pc'[t] = "loop"]_vars

\* a blank result arrived while the transcript and the context held text
Wit_C13_BlankIsNoSpeech ==
    /\ worker_op.outcome = "blank"
    /\ text_buffer # <<>>
    /\ previous_context # <<>>
    /\ streaming_callback

\* C16 (as stated): a thread that is running when the stop event is set
\* terminates, whatever start and stop calls follow.
Orig_C16_WorkerTerminates ==
    \A t \in Threads :
        (streaming_stop_event /\ thread_pc[t] \notin {"unstarted", "ended"})
            ~> (thread_pc[t] = "ended")

\* C17 (as stated): once stop_streaming_transcription has returned and until
\* the next start, the transcript and the context are empty.
Orig_C17_ResetOnStop ==
    (ctl_pc = "idle" /\ ~streaming_active)
        => (text_buffer = <<>> /\ previous_context = <<>>)

\* threads that are running _streaming_processor
ConsumerThreads ==
    {t \in Threads : thread_pc[t] \notin {"unstarted", "ended"}}

\* C28 (as stated): after any sequence of start and stop calls at most one
\* thread is consuming the queue of the provider.
Orig_C28_SingleConsumer == Cardinality(ConsumerThreads) <= 1

Timeouts == 0..MaxTimeoutSteps

CallInit ==
    /\ AsmStart
    /\ enable_overlap_detection = TRUE
    /\ VadIdle
    /\ RecIdle
    /\ ProvIdle
    /\ CallIdle

\* transcribe_audio is called: the backend call starts inline or is
\* submitted to the executor
TranscribeAudio ==
    /\ call_pc \in {"idle", "returned"}
    /\ \E T \in Timeouts, hangs \in BOOLEAN :
        /\ call_timeout' = T
        /\ backend_hangs' = hangs
        /\ call_pc' = IF T = 0 THEN "inline" ELSE "result"
    /\ call_elapsed' = 0
    /\ call_result' = "none"
    /\ backend_done' = FALSE
    /\ UNCHANGED <<engVars, asmVars, vadVars, recVars, provVars>>

\* model.transcribe returns, unless it is the call that never does
BackendReturns ==
    /\ call_pc \in {"inline", "result", "shutdown"}
    /\ ~backend_hangs
    /\ ~backend_done
    /\ backend_done' = TRUE
    /\ UNCHANGED <<call_pc, call_timeout, call_elapsed, call_result,
                   backend_hangs, engVars, asmVars, vadVars, recVars, provVars>>

\* time passes while the caller is blocked: in the inline call or in
\* shutdown(wait=True) until the backend call returns, in future.result
\* until it returns or the timeout runs out
CallStep ==
    /\ call_pc \in {"inline", "result", "shutdown"}
    /\ ~backend_done
    /\ call_pc = "result" => call_elapsed < call_timeout
    /\ call_elapsed < MaxCallSteps
    /\ call_elapsed' = call_elapsed + 1
    /\ UNCHANGED <<call_pc, call_timeout, call_result, backend_hangs,
                   backend_done, engVars, asmVars, vadVars, recVars, provVars>>

\* the backend call returned in time, or inline: the text or None is returned
ReturnResult ==
    /\ call_pc \in {"inline", "result"}
    /\ backend_done
    /\ call_pc' = "returned"
    /\ \E r \in {"text", "None"} : call_result' = r
    /\ UNCHANGED <<call_timeout, call_elapsed, backend_hangs, backend_done,
                   engVars, asmVars, vadVars, recVars, provVars>>

\* _transcribe_with_timeout: future.result timed out, future.cancel() cannot
\* cancel the running call, TimeoutError is raised inside the with block and
\* the exit of the block waits in executor.shutdown(wait=True)
ResultTimeout ==
    /\ call_pc = "result"
    /\ ~backend_done
    /\ call_elapsed >= call_timeout
    /\ call_pc' = "shutdown"
    /\ UNCHANGED <<call_timeout, call_elapsed, call_result, backend_hangs,
                   backend_done, engVars, asmVars, vadVars, recVars, provVars>>

\* the executor's thread is through: the TimeoutError leaves the with block
\* and is caught by `except Exception` of transcribe_audio, which returns None
ShutdownReturns ==
    /\ call_pc = "shutdown"
    /\ backend_done
    /\ call_pc' = "returned"
    /\ call_result' = "None"
    /\ UNCHANGED <<call_timeout, call_elapsed, backend_hangs, backend_done,
                   engVars, asmVars, vadVars, recVars, provVars>>

CallNext ==
    \/ TranscribeAudio
    \/ BackendReturns
    \/ CallStep
    \/ ReturnResult
    \/ ResultTimeout
    \/ ShutdownReturns

SpecCall == CallInit /\ [][CallNext]_vars

\* C10 (as stated): a call of transcribe_audio with timeout T against a
\* backend call that never returns has completed, with a TimeoutError for the
\* caller, once more than T plus one clock step of slack has passed.
Orig_C10_TimeoutSurfaces ==
    (call_timeout > 0 /\ backend_hangs /\ call_elapsed > call_timeout + 1) =>
        (call_pc = "returned" /\ call_result = "TimeoutError")

(***************************************************************************)
(* Live mode (gui.py, audio_recorder.py): start_live_mode starts streaming *)
(* transcription and then start_streaming_recording; stop_live_mode calls  *)
(* stop_streaming_recording and then stop_streaming_transcription.  The    *)
(* driver's thread runs _audio_callback, the recorder's thread runs        *)
(* AudioRecorder._streaming_processor, which holds buffer_lock while       *)
(* VADChunker.process_audio goes through the batch frame by frame and      *)
(* hands emitted chunks to process_audio_chunk, and the provider's thread  *)
(* runs its _streaming_processor.  ctl_pc is the position of the GUI       *)
(* thread.                                                                 *)
(***************************************************************************)
\* the frames the driver delivers in a live session, and how long its clock
\* runs
MaxPipeFrames == 2
MaxPipeClockSteps == 2

\* the sample rates AudioRecorder is constructed with
RecSampleRates == {16000, 44100}

\* frame_duration_ms of VADChunker.__init__ is left at its default
RecConfigs ==
    {[sample_rate |-> sr, frame_duration_ms |-> FrameMs] : sr \in RecSampleRates}

\* the arguments VADChunker.__init__ is tried with
CheckedSampleRates == {8000, 11025, 16000, 22050, 32000, 44100, 48000}
CheckedFrameDurations == {5, 10, 20, 25, 30, 40}

\* (mutant) a constructor that validates nothing
VADChunker_init_Unchecked(sample_rate, frame_duration_ms) == "ok"

\* VADChunker.__init__: the validation of sample rate and frame duration
VADChunker_init(sample_rate, frame_duration_ms) ==
    IF sample_rate \notin {8000, 16000, 32000, 48000} THEN "ValueError"
    ELSE IF frame_duration_ms \notin {10, 20, 30} THEN "ValueError"
    ELSE "ok"

\* the chunker's fields after VADChunker.__init__ at time t
VADChunker_new(c, t) ==
    [c EXCEPT !.is_speaking = FALSE, !.speech_buffer = <<>>,
              !.last_speech_time = t, !.chunk_start_time = t, !.ret = FALSE]

chunkerVars == <<is_speaking, speech_buffer, last_speech_time,
                 chunk_start_time, chunks, vad_op>>

\* the provider's variables that the recorder's chunk callback leaves alone
provChunkRest == <<streaming_active, streaming_stop_event, streaming_callback,
                   processing_lock, transcription_thread, thread_pc,
                   thread_chunk, provider, sessVars, lockVars, previous_context, thread_elapsed,
                   worker_op>>

\* chunk_callback = process_audio_chunk for the chunks emitted in this step
DeliverChunks ==
    IF Len(chunks') > Len(chunks)
    THEN /\ submitted' = submitted + 1
         /\ transcription_queue' = IF streaming_active
                                   THEN Append(transcription_queue, submitted + 1)
                                   ELSE transcription_queue
    ELSE UNCHANGED <<submitted, transcription_queue>>

PipeInit ==
    /\ AsmStart
    /\ enable_overlap_detection = TRUE
    /\ VadIdle
    /\ audio_buffer = <<>>
    /\ last_process_time = 0
    /\ wake_time = 0
    /\ delivered = 0
    /\ \E cfg \in RecConfigs : RecCtlStart(cfg)
    /\ \E p \in Providers : ProvStart(p)
    /\ CallIdle

\* start_live_mode: start_streaming_transcription
LiveStartTranscription ==
    /\ ctl_pc = "idle"
    /\ start_result = "none"
    /\ start_streaming_transcription("gui_rec_start")

\* input streams that can be open at once
MaxStreams == 3

\* the streams opened and not closed
OpenIds(streams) == {s[1] : s \in streams}

\* the object a call of sd.InputStream returns: a stream that is not open yet
NewStream ==
    CHOOSE i \in 1..MaxStreams :
        /\ i \notin OpenIds(open_streams)
        /\ \A j \in 1..(i - 1) : j \in OpenIds(open_streams)

\* some stream that was started has not been stopped
Running(streams) == \E s \in streams : s[2]

\* self.stream = sd.InputStream(**stream_params); self.stream.start(): with
\* a device that fails, either the constructor raises and self.stream keeps
\* its value, or the stream is opened and assigned and start() raises
OpenStream(device_ok) ==
    \E opened \in BOOLEAN :
        /\ device_ok => opened
        /\ IF opened
           THEN /\ stream' = NewStream
                /\ open_streams' = open_streams \cup {<<NewStream, device_ok>>}
           ELSE UNCHANGED <<stream, open_streams>>

\* if self.stream: self.stream.stop(); self.stream.close(); self.stream = None
CloseStream ==
    /\ open_streams' = {s \in open_streams : s[1] # stream}
    /\ stream' = 0

\* start_streaming_recording constructs the VADChunker, opens the input
\* stream and starts its thread; any exception makes it return False with
\* streaming reset
start_streaming_recording(device_ok) ==
    LET constructed == VADChunker_init(rec_cfg.sample_rate,
                                       rec_cfg.frame_duration_ms) = "ok"
        ok == constructed /\ device_ok
    IN
    /\ streaming' = ok
    /\ audio_buffer' = <<>>
    /\ rec_stop_event' = FALSE
    /\ vad_chunker' = constructed
    /\ IF constructed
       THEN SetChunker(VADChunker_new(Chunker, now), "init")
       ELSE UNCHANGED chunkerVars
    /\ Cardinality(open_streams) < MaxStreams
    /\ IF constructed THEN OpenStream(device_ok) ELSE UNCHANGED hwVars
    /\ stream_running' = Running(open_streams')
    /\ proc_pc' = IF ok THEN "test" ELSE proc_pc
    /\ start_result' = IF ok THEN "True" ELSE "False"
    /\ start_op' = [op |-> "start_streaming_recording", device_ok |-> device_ok]
    /\ UNCHANGED <<vad_cfg, now, fed, last_process_time, wake_time, delivered,
                   rec_cfg, rec_lock, cb_pc, proc_batch, recording,
                   audio_queue, rec_pc, cb_frame, captured, since_start,
                   stop_op>>

\* start_live_mode: start_streaming_recording, and the cleanup when it
\* returned False
StartStreamingRecording ==
    /\ ctl_pc = "gui_rec_start"
    /\ \E device_ok \in BOOLEAN :
        /\ start_streaming_recording(device_ok)
        /\ ctl_pc' = IF start_result' = "True" THEN "live" ELSE "gui_cleanup"
    /\ UNCHANGED <<provChunkRest, submitted, transcription_queue, asmVars,
                   callVars>>

\* start_live_mode after a failed start: stop_streaming_transcription
LiveCleanup ==
    /\ ctl_pc = "gui_cleanup"
    /\ stop_streaming_transcription("gui_cleanup_join")

LiveCleanupJoined ==
    /\ ctl_pc = "gui_cleanup_join"
    /\ stop_streaming_transcription_joined("stopped")

\* _audio_callback is called with a frame while streaming: it goes for
\* buffer_lock
CallbackEnter ==
    /\ stream_running
    /\ streaming
    /\ cb_pc = "idle"
    /\ delivered < MaxPipeFrames
    /\ cb_pc' = "lock"
    /\ UNCHANGED <<audio_buffer, last_process_time, wake_time, delivered,
                   rec_cfg, hwVars, batchVars, streaming, rec_stop_event, stream_running,
                   vad_chunker, rec_lock, proc_pc, proc_batch, start_result,
                   vadVars, asmVars, provVars, callVars>>

\* _audio_callback has buffer_lock, appends the frame and returns
CallbackAppend ==
    /\ cb_pc = "lock"
    /\ rec_lock = "free"
    /\ audio_buffer' = Append(audio_buffer, delivered + 1)
    /\ delivered' = delivered + 1
    /\ cb_pc' = "idle"
    /\ UNCHANGED <<last_process_time, wake_time, rec_cfg, hwVars, batchVars, streaming,
                   rec_stop_event, stream_running, vad_chunker, rec_lock,
                   proc_pc, proc_batch, start_result,
                   vadVars, asmVars, provVars, callVars>>

\* AudioRecorder._streaming_processor: the test of the while loop
ProcTest ==
    /\ proc_pc = "test"
    /\ proc_pc' = IF rec_stop_event THEN "ended" ELSE "poll"
    /\ UNCHANGED <<audio_buffer, last_process_time, wake_time, delivered,
                   rec_cfg, hwVars, batchVars, streaming, rec_stop_event, stream_running,
                   vad_chunker, rec_lock, cb_pc, proc_batch, start_result,
                   vadVars, asmVars, provVars, callVars>>

\* AudioRecorder._streaming_processor: when the process interval has
\* elapsed it takes buffer_lock and, with frames buffered, calls
\* process_audio on them; otherwise it sleeps and tests again
ProcPoll ==
    /\ proc_pc = "poll"
    /\ rec_lock = "free"
    /\ \E due \in BOOLEAN :
        IF due /\ audio_buffer # <<>> /\ vad_chunker
        THEN /\ rec_lock' = "processor"
             /\ proc_batch' = audio_buffer
             /\ proc_pc' = "process"
        ELSE /\ proc_pc' = "test"
             /\ UNCHANGED <<rec_lock, proc_batch>>
    /\ UNCHANGED <<audio_buffer, last_process_time, wake_time, delivered,
                   rec_cfg, hwVars, batchVars, streaming, rec_stop_event, stream_running,
                   vad_chunker, cb_pc, start_result,
                   vadVars, asmVars, provVars, callVars>>

\* VADChunker.process_audio: one frame of the batch is classified and
\* processed; an emitted chunk goes to process_audio_chunk
ProcFrame ==
    /\ proc_pc = "process"
    /\ proc_batch # <<>>
    /\ \E is_speech \in BOOLEAN :
          SetChunker(ProcessFrameAt(Chunker, vad_cfg, now, Head(proc_batch),
                                    is_speech), "process_audio")
    /\ DeliverChunks
    /\ proc_batch' = Tail(proc_batch)
    /\ fed' = fed + 1
    /\ UNCHANGED <<vad_cfg, now, audio_buffer, last_process_time, wake_time,
                   delivered, rec_cfg, hwVars, batchVars, streaming, rec_stop_event,
                   stream_running, vad_chunker, rec_lock, cb_pc, proc_pc,
                   start_result, provChunkRest, ctl_pc, asmVars, callVars>>

\* process_audio has returned: the buffer is cleared, buffer_lock released
ProcDone ==
    /\ proc_pc = "process"
    /\ proc_batch = <<>>
    /\ audio_buffer' = <<>>
    /\ rec_lock' = "free"
    /\ proc_pc' = "test"
    /\ UNCHANGED <<last_process_time, wake_time, delivered, rec_cfg, hwVars, batchVars,
                   streaming, rec_stop_event, stream_running, vad_chunker,
                   cb_pc, proc_batch, start_result,
                   vadVars, asmVars, provVars, callVars>>

\* the wall clock advances during the session
PipeClockTick ==
    /\ now < MaxPipeClockSteps * TickMs
    /\ ClockTick

\* stop_live_mode: stop_streaming_recording clears streaming, sets the stop
\* event and calls stream.stop()
StopStreamingRecording ==
    /\ ctl_pc = "live"
    /\ streaming' = FALSE
    /\ rec_stop_event' = TRUE
    /\ ctl_pc' = "rec_stream_stop"
    /\ UNCHANGED <<audio_buffer, last_process_time, wake_time, delivered,
                   rec_cfg, hwVars, batchVars, stream_running, vad_chunker, rec_lock, cb_pc,
                   proc_pc, proc_batch, start_result, provChunkRest,
                   submitted, transcription_queue,
                   vadVars, asmVars, callVars>>

\* stream.stop() returns once no callback is running
StreamStopped ==
    /\ ctl_pc = "rec_stream_stop"
    /\ cb_pc = "idle"
    /\ CloseStream
    /\ stream_running' = Running(open_streams')
    /\ ctl_pc' = "rec_join"
    /\ UNCHANGED <<audio_buffer, last_process_time, wake_time, delivered,
                   rec_cfg, batchVars, streaming, rec_stop_event, vad_chunker, rec_lock,
                   cb_pc, proc_pc, proc_batch, start_result, provChunkRest,
                   submitted, transcription_queue,
                   vadVars, asmVars, callVars>>

\* streaming_thread.join(timeout=2.0) returns: the thread has ended, or the
\* 2 s ran out while it was inside process_audio
StreamingJoinReturns ==
    JoinReturns(proc_pc \in {"none", "ended"}, proc_pc = "process")

\* the rest of stop_streaming_recording once the join has returned:
\* force_chunk, whose chunk goes to process_audio_chunk, then the chunker
\* and the buffer are dropped
StopRecordingJoined ==
    /\ ctl_pc = "rec_join"
    /\ StreamingJoinReturns
    /\ IF vad_chunker
       THEN SetChunker(force_chunk(Chunker, now), "force")
       ELSE UNCHANGED chunkerVars
    /\ DeliverChunks
    /\ vad_chunker' = FALSE
    /\ audio_buffer' = <<>>
    /\ ctl_pc' = "gui_stop_trans"
    /\ UNCHANGED <<vad_cfg, now, fed, last_process_time, wake_time, delivered,
                   rec_cfg, hwVars, batchVars, streaming, rec_stop_event, stream_running,
                   rec_lock, cb_pc, proc_pc, proc_batch, start_result,
                   provChunkRest, asmVars, callVars>>

\* stop_live_mode: stop_streaming_transcription
LiveStopTranscription ==
    /\ ctl_pc = "gui_stop_trans"
    /\ stop_streaming_transcription("gui_join")

LiveStopJoined ==
    /\ ctl_pc = "gui_join"
    /\ stop_streaming_transcription_joined("stopped")

PipeNext ==
    \/ LiveStartTranscription
    \/ StartStreamingRecording
    \/ LiveCleanup
    \/ LiveCleanupJoined
    \/ CallbackEnter
    \/ CallbackAppend
    \/ ProcTest
    \/ ProcPoll
    \/ ProcFrame
    \/ ProcDone
    \/ PipeClockTick
    \/ StopStreamingRecording
    \/ StreamStopped
    \/ StopRecordingJoined
    \/ LiveStopTranscription
    \/ LiveStopJoined
    \/ \E t \in Threads : WorkerTestStop(t)
    \/ \E t \in Threads : WorkerGet(t)
    \/ \E t \in Threads : WorkerAcquire(t)
    \/ \E t \in Threads : WorkerBackendStep(t)
    \/ \E t \in Threads : WorkerFinish(t)

SpecPipe == PipeInit /\ [][PipeNext]_vars

\* the steps that take bounded time are taken: the GUI thread goes through
\* the stop sequence, the callback and the recorder's thread take their
\* steps, and the provider's thread tests the stop event and polls its
\* queue; nothing is assumed about a backend call ever ending
SpecPipeFair ==
    /\ SpecPipe
    /\ WF_vars(StreamStopped)
    /\ WF_vars(StopRecordingJoined)
    /\ WF_vars(LiveStopTranscription)
    /\ WF_vars(LiveStopJoined)
    /\ WF_vars(CallbackAppend)
    /\ WF_vars(ProcTest)
    /\ WF_vars(ProcPoll)
    /\ WF_vars(ProcFrame)
    /\ WF_vars(ProcDone)
    /\ \A t \in Threads : WF_vars(WorkerTestStop(t)) /\ WF_vars(WorkerGet(t))

\* C14 (as stated): in every reachable state _audio_callback can append its
\* frames without waiting for the segmentation thread: when the callback
\* goes for buffer_lock, the lock is not held by _streaming_processor.
Orig_C14_CallbackNeverWaits ==
    cb_pc = "lock" => rec_lock = "free"

\* C15: once stop_live_mode has entered stop_streaming_recording, the
\* sequence stop_streaming_recording, stop_streaming_transcription returns,
\* also when a backend call is in flight and never ends.
Thm_C15_ShutdownReturns ==
    (ctl_pc = "rec_stream_stop") ~> (ctl_pc = "stopped")

\* the shutdown of a started session has returned while a thread is still
\* inside a backend call
Wit_C15_ShutdownReturns ==
    /\ ctl_pc = "stopped"
    /\ start_result = "True"
    /\ InBackend # {}

\* C20: VADChunker.__init__ raises for every sample rate other than
\* 8000/16000/32000/48000 Hz and every frame duration other than 10/20/30 ms;
\* with such a configuration start_streaming_recording returns False, the
\* recorder is not streaming, no stream or thread runs and no frame has been
\* delivered or processed.
Thm_C20_UnsupportedRejected ==
    /\ \A sr \in CheckedSampleRates, fd \in CheckedFrameDurations :
          (sr \notin {8000, 16000, 32000, 48000} \/ fd \notin {10, 20, 30})
             => VADChunker_init(sr, fd) = "ValueError"
    /\ (start_result # "none"
        /\ (rec_cfg.sample_rate \notin {8000, 16000, 32000, 48000}
            \/ rec_cfg.frame_duration_ms \notin {10, 20, 30}))
          => /\ start_result = "False"
             /\ ~streaming
             /\ ~stream_running
             /\ ~vad_chunker
             /\ proc_pc = "none"
             /\ delivered = 0
             /\ fed = 0

\* a recorder with 44100 Hz failed to start and live mode was cleaned up
Wit_C20_UnsupportedRejected ==
    /\ rec_cfg.sample_rate = 44100
    /\ start_result = "False"
    /\ ctl_pc = "stopped"

\* C37 (as stated): every frame the audio callback delivered while
\* streaming has been classified by process_audio exactly once when the live
\* session has been stopped and the recorder's thread has no batch left:
\* nothing the callback buffered is dropped at stop.
Orig_C37_EverySampleClassified ==
    (ctl_pc = "stopped" /\ start_result = "True" /\ proc_pc # "process") =>
        fed = delivered

\* C40 (as stated): when stop_live_mode has returned after a session whose
\* only chunk is the one force_chunk flushed at the stop, that chunk has been
\* through the backend: the thread of the provider has processed a chunk.
Orig_C40_FlushedChunkDelivered ==
    (/\ ctl_pc = "stopped"
     /\ start_result = "True"
     /\ vad_op.op = "force"
     /\ vad_op.ret
     /\ submitted = 1)
        => worker_op.outcome # "none"

(***************************************************************************)
(* Startup and configuration of the engine (gui.py, main_cli.py,           *)
(* transcription.py, providers/): the GUI and the CLI construct            *)
(* TranscriptionEngine from the Config, a user of the providers package    *)
(* constructs the provider class the Config names, and configure_language  *)
(* replaces the language and model size of the running engine.  A model   *)
(* name is the sequence of the pieces of its f-string.                     *)
(***************************************************************************)
WhisperProviders == {"faster-whisper", "whisper-cpp"}
Languages == {"auto", "en", "fr"}
\* model sizes that exist with and without the English-only variant
ModelSizes == {"tiny", "base", "small"}

Configs ==
    [whisper_provider : WhisperProviders, transcription_language : Languages,
     model_size : ModelSizes]

\* _load_model: f"{model_size}.en" for "en", model_size otherwise
ModelName(language, size) ==
    IF language = "en" THEN <<size, ".en">> ELSE <<size>>

\* the keys of model_mapping of WhisperCppProvider._load_model
MappedModels ==
    {<<"tiny">>, <<"base">>, <<"small">>, <<"medium">>, <<"large">>,
     <<"large-v2">>, <<"large-v3">>, <<"tiny", ".en">>, <<"base", ".en">>,
     <<"small", ".en">>, <<"medium", ".en">>}

\* model_mapping.get(model_key, "ggml-small.bin")
model_filename(model_key) ==
    IF model_key \in MappedModels THEN <<"ggml-">> \o model_key \o <<".bin">>
    ELSE <<"ggml-", "small", ".bin">>

\* current_model_name after _load_model of an engine of class `kind`
_load_model(kind, language, size) ==
    IF kind = "WhisperCppProvider" THEN model_filename(ModelName(language, size))
    ELSE ModelName(language, size)

\* the condition under which configure_language calls _load_model
ReloadDue(kind, old_language, old_size, language, size, current) ==
    IF kind = "FasterWhisperProvider"
    THEN /\ (old_language # language \/ old_size # size)
         /\ ModelName(language, size) # current
    ELSE old_language # language

EngineInit ==
    /\ AsmStart
    /\ enable_overlap_detection = TRUE
    /\ VadIdle
    /\ RecIdle
    /\ ProvIdle
    /\ call_pc = "idle"
    /\ call_timeout = 0
    /\ call_elapsed = 0
    /\ call_result = "none"
    /\ backend_hangs = FALSE
    /\ backend_done = FALSE
    /\ config \in Configs
    /\ whisper_cli \in BOOLEAN
    /\ startup = "pending"
    /\ engine = "none"
    /\ startup_report = "none"
    /\ language_config = "auto"
    /\ model_size = "small"
    /\ current_model_name = <<>>
    /\ configure_result = "none"

\* an engine of class `kind` has been constructed from the Config
Constructed(kind) ==
    /\ engine' = kind
    /\ startup' = "running"
    /\ language_config' = config.transcription_language
    /\ model_size' = config.model_size
    /\ current_model_name' = _load_model(kind, config.transcription_language,
                                         config.model_size)

\* SpeechToTextGUI.__init__: TranscriptionEngine(language_config, model_size);
\* Config.whisper_provider is not read and nothing is reported
GuiStartup ==
    /\ startup = "pending"
    /\ Constructed("TranscriptionEngine")
    /\ UNCHANGED <<config, whisper_cli, startup_report, configure_result,
                   call_pc, call_timeout, call_elapsed, call_result,
                   backend_hangs, backend_done,
                   asmVars, vadVars, recVars, provVars>>

\* SpeechToTextCLI.__init__: TranscriptionEngine(..., whisper_provider=...)
\* raises TypeError for the arguments __init__ does not take; main() prints
\* the error and the CLI does not start
CliStartup ==
    /\ startup = "pending"
    /\ startup' = "failed"
    /\ startup_report' = "error"
    /\ UNCHANGED <<config, whisper_cli, engine, language_config, model_size,
                   current_model_name, configure_result,
                   call_pc, call_timeout, call_elapsed, call_result,
                   backend_hangs, backend_done,
                   asmVars, vadVars, recVars, provVars>>

\* the provider class the Config names is constructed:
\* WhisperCppProvider.__init__ raises ImportError without whisper-cli
ConstructProvider ==
    /\ startup = "pending"
    /\ IF config.whisper_provider = "whisper-cpp"
       THEN IF whisper_cli
            THEN Constructed("WhisperCppProvider") /\ UNCHANGED startup_report
            ELSE /\ startup' = "failed"
                 /\ startup_report' = "ImportError"
                 /\ UNCHANGED <<engine, language_config, model_size,
                                current_model_name>>
       ELSE Constructed("FasterWhisperProvider") /\ UNCHANGED startup_report
    /\ UNCHANGED <<config, whisper_cli, configure_result,
                   call_pc, call_timeout, call_elapsed, call_result,
                   backend_hangs, backend_done,
                   asmVars, vadVars, recVars, provVars>>

\* configure_language(language, size) with synchronous loading
ConfigureLanguage ==
    /\ startup = "running"
    /\ \E language \in Languages, size \in ModelSizes :
        /\ language_config' = language
        /\ model_size' = size
        /\ current_model_name' =
              IF ReloadDue(engine, language_config, model_size, language, size,
                           current_model_name)
              THEN _load_model(engine, language, size)
              ELSE current_model_name
    /\ configure_result' = "returned"
    /\ UNCHANGED <<config, whisper_cli, startup, engine, startup_report,
                   call_pc, call_timeout, call_elapsed, call_result,
                   backend_hangs, backend_done,
                   asmVars, vadVars, recVars, provVars>>

EngineNext ==
    \/ GuiStartup
    \/ CliStartup
    \/ ConstructProvider
    \/ ConfigureLanguage

SpecEngine == EngineInit /\ [][EngineNext]_vars

\* C18 (as stated): when the Config selects whisper-cpp and whisper-cli is
\* not available, startup does not fail, the engine that runs is the
\* embedded faster-whisper one, and the fallback has been reported.
Orig_C18_FallbackReported ==
    (startup # "pending" /\ config.whisper_provider = "whisper-cpp"
     /\ ~whisper_cli)
        => /\ startup = "running"
           /\ engine \in {"TranscriptionEngine", "FasterWhisperProvider"}
           /\ startup_report = "fallback"

\* C19 (as stated): after configure_language has returned, the model
\* get_language_info reports as current_model is the one named by the new
\* model size, in its English-only variant exactly when the language is
\* "en".
Orig_C19_ModelFollowsConfig ==
    configure_result = "returned"
        => current_model_name = _load_model(engine, language_config, model_size)

(***************************************************************************)
(* Frame sizes (vad_chunker.py): VADChunker.__init__ derives frame_samples *)
(* from the sample rate and the frame duration, and process_audio cuts the *)
(* samples it is given into frames of that size.                           *)
(***************************************************************************)
\* every pair of arguments VADChunker.__init__ is tried with
ChunkerConfigs ==
    [sample_rate : CheckedSampleRates, frame_duration_ms : CheckedFrameDurations]

\* (mutant) the frame size of 16 kHz audio, whatever the sample rate
FrameSamples_Fixed16k(sample_rate, frame_duration_ms) ==
    (16000 * frame_duration_ms) \div 1000

\* int(sample_rate * frame_duration_ms / 1000)
FrameSamples(sample_rate, frame_duration_ms) ==
    (sample_rate * frame_duration_ms) \div 1000

\* VADChunker.frame_samples of the constructed chunker
frame_samples ==
    IF vad_chunker
    THEN FrameSamples(rec_cfg.sample_rate, rec_cfg.frame_duration_ms)
    ELSE 0

\* the frames of range(0, len - frame_samples + 1, frame_samples)
FrameCount(len, size) == IF len < size THEN 0 ELSE len \div size

FramesInit ==
    /\ AsmStart
    /\ enable_overlap_detection = TRUE
    /\ VadIdle
    /\ audio_buffer = <<>>
    /\ last_process_time = 0
    /\ wake_time = 0
    /\ delivered = 0
    /\ \E cfg \in ChunkerConfigs : RecCtlStart(cfg)
    /\ ProvIdle
    /\ CallIdle

\* VADChunker(sample_rate, frame_duration_ms): the chunker exists when the
\* validation let the arguments through
ConstructChunker ==
    /\ ~vad_chunker
    /\ VADChunker_init(rec_cfg.sample_rate, rec_cfg.frame_duration_ms) = "ok"
    /\ vad_chunker' = TRUE
    /\ UNCHANGED <<audio_buffer, last_process_time, wake_time, delivered,
                   rec_cfg, hwVars, batchVars, streaming, rec_stop_event, stream_running,
                   rec_lock, cb_pc, proc_pc, proc_batch, start_result,
                   vadVars, asmVars, provVars, callVars>>

\* process_audio on an array of whole frames and up to one frame of extra
\* samples: the frame loop runs once per whole frame
ProcessSamples ==
    /\ vad_chunker
    /\ \E whole \in 0..(MaxFrames - fed), extra \in 0..(frame_samples - 1) :
          fed' = fed + FrameCount(whole * frame_samples + extra, frame_samples)
    /\ UNCHANGED <<vad_cfg, is_speaking, speech_buffer, last_speech_time,
                   chunk_start_time, now, chunks, vad_op, recVars, asmVars,
                   provVars, callVars>>

FramesNext == ConstructChunker \/ ProcessSamples

SpecFrames == FramesInit /\ [][FramesNext]_vars

\* C21: for every supported sample rate and frame duration the constructed
\* chunker's frame_samples is sample_rate * frame_duration_ms / 1000 exactly,
\* with no remainder.
Thm_C21_FrameSamplesExact ==
    vad_chunker =>
        /\ rec_cfg.sample_rate \in {8000, 16000, 32000, 48000}
        /\ rec_cfg.frame_duration_ms \in {10, 20, 30}
        /\ frame_samples * 1000 = rec_cfg.sample_rate * rec_cfg.frame_duration_ms
        /\ (rec_cfg.sample_rate * rec_cfg.frame_duration_ms) % 1000 = 0

\* a chunker for 48 kHz and 30 ms frames has cut samples into frames
Wit_C21_FrameSamplesExact ==
    /\ vad_chunker
    /\ rec_cfg.sample_rate = 48000
    /\ rec_cfg.frame_duration_ms = 30
    /\ frame_samples = 1440
    /\ fed > 0

(***************************************************************************)
(* Batch capture (audio_recorder.py): start_recording opens the input      *)
(* stream, _audio_callback puts every frame that arrives while recording   *)
(* is set on audio_queue, stop_recording stops the stream, drains the      *)
(* queue and returns the frames concatenated.                              *)
(***************************************************************************)
\* frames the input stream delivers in one run
MaxBatchFrames == 3

\* (mutant) a failed start leaves recording set
start_recording_NoReset(device_ok) ==
    /\ recording' = TRUE
    /\ Cardinality(open_streams) < MaxStreams
    /\ OpenStream(device_ok)
    /\ stream_running' = Running(open_streams')
    /\ start_result' = IF device_ok THEN "True" ELSE "False"
    /\ since_start' = <<>>
    /\ start_op' = [op |-> "start_recording", device_ok |-> device_ok]

\* start_recording: recording is set, the stream is opened and started; an
\* exception resets recording and False is returned
start_recording(device_ok) ==
    /\ recording' = device_ok
    /\ Cardinality(open_streams) < MaxStreams
    /\ OpenStream(device_ok)
    /\ stream_running' = Running(open_streams')
    /\ start_result' = IF device_ok THEN "True" ELSE "False"
    /\ since_start' = <<>>
    /\ start_op' = [op |-> "start_recording", device_ok |-> device_ok]

\* (mutant) the frame goes to the head of the queue
QueuePut_Front(queue, frame) == <<frame>> \o queue

\* audio_queue.put(indata.copy())
QueuePut(queue, frame) == Append(queue, frame)

\* np.concatenate(audio_data, axis=0) of the drained frames, None if there
\* were none
Concatenate(audio_data) ==
    [ret_none |-> audio_data = <<>>, ret |-> audio_data]

RecorderInit ==
    /\ AsmStart
    /\ enable_overlap_detection = TRUE
    /\ VadIdle
    /\ RecIdle
    /\ ProvIdle
    /\ CallIdle

\* toggle_recording -> start_recording, made while neither recording nor in
\* live mode and with no stop_recording still running
StartRecording ==
    /\ rec_pc = "idle"
    /\ ~recording
    /\ ~streaming
    /\ \E device_ok \in BOOLEAN : start_recording(device_ok)
    /\ UNCHANGED <<audio_buffer, last_process_time, wake_time, delivered,
                   rec_cfg, streaming, rec_stop_event, vad_chunker, rec_lock,
                   cb_pc, proc_pc, proc_batch, audio_queue, rec_pc, cb_frame,
                   captured, stop_op, vadVars, asmVars, provVars, callVars>>

\* toggle_live_mode -> start_streaming_recording, made while neither
\* recording nor in live mode
StartStreaming_Recorder ==
    /\ rec_pc = "idle"
    /\ ~recording
    /\ ~streaming
    /\ \E device_ok \in BOOLEAN : start_streaming_recording(device_ok)
    /\ UNCHANGED <<asmVars, provVars, callVars>>

\* the stream calls _audio_callback with a frame: if self.recording
BatchCallbackTest ==
    /\ stream_running
    /\ ~streaming
    /\ cb_frame = 0
    /\ captured < MaxBatchFrames
    /\ captured' = captured + 1
    /\ cb_frame' = IF recording THEN captured + 1 ELSE 0
    /\ since_start' = IF recording THEN Append(since_start, captured + 1)
                      ELSE since_start
    /\ UNCHANGED <<audio_buffer, last_process_time, wake_time, delivered,
                   rec_cfg, hwVars, streaming, rec_stop_event, stream_running,
                   vad_chunker, rec_lock, cb_pc, proc_pc, proc_batch,
                   start_result, recording, audio_queue, rec_pc, start_op,
                   stop_op, vadVars, asmVars, provVars, callVars>>

\* _audio_callback: self.audio_queue.put(indata.copy())
BatchCallbackPut ==
    /\ cb_frame # 0
    /\ audio_queue' = QueuePut(audio_queue, cb_frame)
    /\ cb_frame' = 0
    /\ UNCHANGED <<audio_buffer, last_process_time, wake_time, delivered,
                   rec_cfg, hwVars, streaming, rec_stop_event, stream_running,
                   vad_chunker, rec_lock, cb_pc, proc_pc, proc_batch,
                   start_result, recording, rec_pc, captured, since_start,
                   start_op, stop_op, vadVars, asmVars, provVars, callVars>>

\* stop_recording: None at once when not recording, else recording is
\* cleared
StopRecording ==
    /\ rec_pc = "idle"
    /\ IF recording
       THEN /\ recording' = FALSE
            /\ rec_pc' = "stop_stream"
            /\ UNCHANGED stop_op
       ELSE /\ stop_op' = [called |-> TRUE, was_recording |-> FALSE,
                           ret_none |-> TRUE, ret |-> <<>>,
                           expected |-> <<>>]
            /\ UNCHANGED <<recording, rec_pc>>
    /\ UNCHANGED <<audio_buffer, last_process_time, wake_time, delivered,
                   rec_cfg, hwVars, streaming, rec_stop_event, stream_running,
                   vad_chunker, rec_lock, cb_pc, proc_pc, proc_batch,
                   start_result, audio_queue, cb_frame, captured,
                   since_start, start_op, vadVars, asmVars, provVars,
                   callVars>>

\* stop_recording: stream.stop() returns once no callback is running, then
\* the stream is closed
StopRecordingStream ==
    /\ rec_pc = "stop_stream"
    /\ cb_frame = 0
    /\ CloseStream
    /\ stream_running' = Running(open_streams')
    /\ rec_pc' = "stop_drain"
    /\ UNCHANGED <<audio_buffer, last_process_time, wake_time, delivered,
                   rec_cfg, streaming, rec_stop_event, vad_chunker, rec_lock,
                   cb_pc, proc_pc, proc_batch, start_result, recording,
                   audio_queue, cb_frame, captured, since_start, start_op,
                   stop_op, vadVars, asmVars, provVars, callVars>>

\* stop_recording: the queue is drained and the frames are concatenated
StopRecordingDrain ==
    /\ rec_pc = "stop_drain"
    /\ audio_queue' = <<>>
    /\ stop_op' = [called |-> TRUE, was_recording |-> TRUE,
                   ret_none |-> Concatenate(audio_queue).ret_none,
                   ret |-> Concatenate(audio_queue).ret,
                   expected |-> since_start]
    /\ rec_pc' = "idle"
    /\ UNCHANGED <<audio_buffer, last_process_time, wake_time, delivered,
                   rec_cfg, hwVars, streaming, rec_stop_event, stream_running,
                   vad_chunker, rec_lock, cb_pc, proc_pc, proc_batch,
                   start_result, recording, cb_frame, captured, since_start,
                   start_op, vadVars, asmVars, provVars, callVars>>

RecorderNext ==
    \/ StartRecording
    \/ StartStreaming_Recorder
    \/ BatchCallbackTest
    \/ BatchCallbackPut
    \/ StopRecording
    \/ StopRecordingStream
    \/ StopRecordingDrain

SpecRecorder == RecorderInit /\ [][RecorderNext]_vars

\* C23: stop_recording called while recording returns, in arrival order,
\* exactly the frames the callback delivered since the matching
\* start_recording, or None when there were none; called while not recording
\* it returns None and changes nothing of the recorder.
Thm_C23_BatchCapture ==
    /\ [](stop_op.called =>
            /\ stop_op.ret_none = (stop_op.expected = <<>>)
            /\ stop_op.ret = stop_op.expected
            /\ \A i, j \in 1..Len(stop_op.ret) :
                  i < j => stop_op.ret[i] < stop_op.ret[j]
            /\ (~stop_op.was_recording => stop_op.ret_none))
    /\ [][(rec_pc = "idle" /\ ~recording /\ stop_op' # stop_op) =>
            UNCHANGED <<recording, audio_queue, stream_running, streaming,
                        rec_pc, cb_frame, start_result>>]_vars

\* a later recording returned its own two frames, and not the frame that had
\* arrived during an earlier one
Wit_C23_BatchCapture ==
    /\ stop_op.called
    /\ stop_op.was_recording
    /\ stop_op.ret = <<2, 3>>
    /\ rec_pc = "idle"
    /\ audio_queue = <<>>

\* C24: when the device cannot be opened, start_recording and
\* start_streaming_recording return False and the recorder is neither
\* recording nor streaming, with no stream running and no processing thread.
Thm_C24_DeviceFailure ==
    (start_op.op # "none" /\ ~start_op.device_ok) =>
        /\ start_result = "False"
        /\ ~recording
        /\ ~streaming
        /\ ~stream_running
        /\ proc_pc = "none"

\* start_streaming_recording failed on the device after a recording that
\* had worked
Wit_C24_DeviceFailure ==
    /\ start_op = [op |-> "start_streaming_recording", device_ok |-> FALSE]
    /\ start_result = "False"
    /\ stop_op.called
    /\ stop_op.was_recording

(***************************************************************************)
(* The input streams of the recorder (audio_recorder.py): the four start   *)
(* and stop methods called in any order by one thread, as the recorder's   *)
(* interface allows.                                                       *)
(***************************************************************************)
\* start_recording, whatever the state of the recorder
CallStartRecording ==
    /\ rec_pc = "idle"
    /\ \E device_ok \in BOOLEAN : start_recording(device_ok)
    /\ UNCHANGED <<audio_buffer, last_process_time, wake_time, delivered,
                   rec_cfg, streaming, rec_stop_event, vad_chunker, rec_lock,
                   cb_pc, proc_pc, proc_batch, audio_queue, rec_pc, cb_frame,
                   captured, stop_op, vadVars, asmVars, provVars, callVars>>

\* start_streaming_recording, whatever the state of the recorder
CallStartStreamingRecording ==
    /\ rec_pc = "idle"
    /\ \E device_ok \in BOOLEAN : start_streaming_recording(device_ok)
    /\ UNCHANGED <<asmVars, provVars, callVars>>

\* stop_streaming_recording: nothing when not streaming; else the flag is
\* cleared, the stop event set, self.stream stopped and closed, the thread
\* joined, force_chunk called, the chunker and the buffer dropped
CallStopStreamingRecording ==
    /\ rec_pc = "idle"
    /\ streaming
    /\ streaming' = FALSE
    /\ rec_stop_event' = TRUE
    /\ CloseStream
    /\ stream_running' = Running(open_streams')
    /\ proc_pc' = IF proc_pc = "none" THEN "none" ELSE "ended"
    /\ IF vad_chunker
       THEN SetChunker(force_chunk(Chunker, now), "force")
       ELSE UNCHANGED chunkerVars
    /\ vad_chunker' = FALSE
    /\ audio_buffer' = <<>>
    /\ UNCHANGED <<vad_cfg, now, fed, last_process_time, wake_time, delivered,
                   rec_cfg, batchVars, rec_lock, cb_pc, proc_batch,
                   start_result, asmVars, provVars, callVars>>

StreamsNext ==
    \/ CallStartRecording
    \/ CallStartStreamingRecording
    \/ StopRecording
    \/ StopRecordingStream
    \/ StopRecordingDrain
    \/ CallStopStreamingRecording

SpecStreams == RecorderInit /\ [][StreamsNext]_vars

\* C38 (as stated): after any sequence of start_recording,
\* start_streaming_recording, stop_recording and stop_streaming_recording
\* the recorder has at most one input stream open, and none once it is
\* neither recording nor streaming.
Orig_C38_OneStreamOwned ==
    /\ Cardinality(open_streams) <= 1
    /\ (~recording /\ ~streaming /\ rec_pc = "idle") => open_streams = {}

(***************************************************************************)
(* The textual context (faster_whisper_provider.py and                     *)
(* whisper_cpp_provider.py, the same code in both): _update_context is     *)
(* called with the stripped text of every backend result that is not       *)
(* empty, and stop_streaming_transcription clears the context.             *)
(***************************************************************************)
\* _update_context calls in one run
MaxContextUpdates == 3

\* a word of n letters c
Rep(c, n) == [i \in 1..n |-> c]

\* texts of backend results: short ones, long words, a word longer than the
\* context, and a text whose two words are two whitespace characters apart
\* (whisper-cli prints a segment per line, each line starting with a space)
ContextTexts ==
    {ExHello, ExQuick, Rep("a", 20),
     Rep("b", 20) \o <<" ", " ">> \o Rep("c", 20),
     Rep("d", 60),
     Rep("e", 30) \o <<" ">> \o Rep("f", 19)}

\* the context before the last call, a space, the text of the last call
ContextInput == ctx_prev \o <<" ">> \o ctx_new

\* s is the end of full and starts at a word boundary of it
IsWordSuffix(s, full) ==
    /\ Len(s) <= Len(full)
    /\ s = SubSeq(full, Len(full) - Len(s) + 1, Len(full))
    /\ s # <<>> => ~IsSpace(s[1])
    /\ (s # <<>> /\ Len(s) < Len(full)) => IsSpace(full[Len(full) - Len(s)])

\* ws is the end of the sequence of words all
IsSeqSuffix(ws, all) ==
    /\ Len(ws) <= Len(all)
    /\ ws = SubSeq(all, Len(all) - Len(ws) + 1, Len(all))

ContextInit ==
    /\ AsmStart
    /\ enable_overlap_detection = TRUE
    /\ VadIdle
    /\ RecIdle
    /\ \E p \in Providers : ProvStart(p)
    /\ CallIdle

\* _transcribe_chunk got a text: self._update_context(transcribed_text)
UpdateContext ==
    /\ ctx_calls < MaxContextUpdates
    /\ \E new_text \in ContextTexts :
        /\ previous_context' = _update_context(previous_context, new_text)
        /\ ctx_new' = new_text
    /\ ctx_prev' = previous_context
    /\ ctx_calls' = ctx_calls + 1
    /\ UNCHANGED <<streaming_active, streaming_stop_event, streaming_callback,
                   transcription_queue, processing_lock, transcription_thread,
                   thread_pc, thread_chunk, submitted, ctl_pc, provider, sessVars,
                   thread_elapsed, worker_op, buffer_lock, thread_text,
                   asmVars, vadVars, recVars, callVars>>

\* stop_streaming_transcription: self.previous_context = ""
ClearContext ==
    /\ previous_context # <<>>
    /\ previous_context' = <<>>
    /\ UNCHANGED <<streaming_active, streaming_stop_event, streaming_callback,
                   transcription_queue, processing_lock, transcription_thread,
                   thread_pc, thread_chunk, submitted, ctl_pc, provider, sessVars,
                   thread_elapsed, worker_op, lockVars,
                   asmVars, vadVars, recVars, callVars>>

ContextNext == UpdateContext \/ ClearContext

SpecContext == ContextInit /\ [][ContextNext]_vars

\* C25 (as stated): the stored context never exceeds 50 characters and is
\* always a suffix, starting at a word boundary, of the previous context
\* followed by the new text.
Orig_C25_ContextSuffix ==
    /\ Len(previous_context) <= 50
    /\ IsWordSuffix(previous_context, ContextInput)

\* C25 (amended): the stored context never exceeds 50 characters and its
\* words are always the last whole words of the previous context followed by
\* the new text; it is that text itself, stripped, when this fits into 50
\* characters, and otherwise the last words that fit, joined by single
\* spaces whatever whitespace stood between them (none when the last word
\* alone does not fit).
Thm_C25_ContextWords ==
    LET combined == Strip(ContextInput) IN
    /\ Len(previous_context) <= 50
    /\ IsSeqSuffix(Split(previous_context), Split(ContextInput))
    /\ previous_context # <<>> =>
          IF Len(combined) <= 50
          THEN previous_context = combined
          ELSE /\ previous_context = Join(Split(previous_context))
               /\ previous_context # combined

\* the context was trimmed to two words that stood two whitespace characters
\* apart in the text
Wit_C25_ContextWords ==
    /\ ctx_calls = 2
    /\ ctx_prev = Rep("a", 20)
    /\ ctx_new = Rep("b", 20) \o <<" ", " ">> \o Rep("c", 20)
    /\ previous_context = Rep("b", 20) \o <<" ">> \o Rep("c", 20)

(***************************************************************************)
(* The locks of streaming transcription (faster_whisper_provider.py and    *)
(* whisper_cpp_provider.py): the streaming model with the critical         *)
(* sections of buffer_lock taken step by step.  A thread holds             *)
(* processing_lock from its backend call to its callback; buffer_lock is   *)
(* taken inside _assemble_text_chunk and by the resets of start and stop.  *)
(***************************************************************************)
\* the thread that calls start_ and stop_streaming_transcription, as a
\* holder of buffer_lock
ControlThread == MaxThreads + 1

\* the assembler's variables other than text_buffer
asmRest == <<asm_deltas, asm_prev, asm_new, asm_delta, asm_called, asm_words,
             enable_overlap_detection>>

ctxVars == <<ctx_prev, ctx_new, ctx_calls>>

\* (mutant) leaving the with block keeps the lock
ReleaseLock_Kept(holder) == holder

\* the end of `with self.buffer_lock:`
ReleaseLock(holder) == 0

\* start_streaming_transcription: the flags, the callback and the event
StartFlags ==
    /\ ctl_pc = "idle"
    /\ UnstartedThreads # {}
    /\ streaming_active' = TRUE
    /\ streaming_callback' = TRUE
    /\ streaming_stop_event' = FALSE
    /\ ctl_pc' = "start_lock"
    /\ UNCHANGED <<text_buffer, asmRest, transcription_queue, processing_lock,
                   transcription_thread, thread_pc, thread_chunk, submitted,
                   provider, sessVars, previous_context, thread_elapsed, worker_op,
                   lockVars, vadVars, recVars, callVars>>

\* start_streaming_transcription: with self.buffer_lock
StartResetEnter ==
    /\ ctl_pc = "start_lock"
    /\ LockFree(buffer_lock)
    /\ buffer_lock' = ControlThread
    /\ ctl_pc' = "start_reset"
    /\ UNCHANGED <<text_buffer, asmRest, streaming_active,
                   streaming_stop_event, streaming_callback,
                   transcription_queue, processing_lock, transcription_thread,
                   thread_pc, thread_chunk, submitted, provider, sessVars,
                   previous_context, thread_elapsed, worker_op, thread_text,
                   ctxVars, vadVars, recVars, callVars>>

\* start_streaming_transcription: text_buffer is reset, the lock is given
\* back and the thread is created and started
StartResetExit ==
    /\ ctl_pc = "start_reset"
    /\ text_buffer' = <<>>
    /\ buffer_lock' = ReleaseLock(buffer_lock)
    /\ LET t == CHOOSE u \in UnstartedThreads :
                    \A v \in UnstartedThreads : u <= v IN
       /\ thread_pc' = [thread_pc EXCEPT ![t] = "loop"]
       /\ transcription_thread' = t
    /\ ctl_pc' = "idle"
    /\ UNCHANGED <<asmRest, streaming_active, streaming_stop_event,
                   streaming_callback, transcription_queue, processing_lock,
                   thread_chunk, submitted, provider, sessVars, previous_context,
                   thread_elapsed, worker_op, thread_text, ctxVars, vadVars,
                   recVars, callVars>>

\* stop_streaming_transcription: the join has returned, the callback is
\* dropped
StopJoinReturned ==
    /\ ctl_pc = "join"
    /\ TranscriptionJoinReturns
    /\ streaming_callback' = FALSE
    /\ ctl_pc' = "stop_lock"
    /\ UNCHANGED <<text_buffer, asmRest, streaming_active,
                   streaming_stop_event, transcription_queue, processing_lock,
                   transcription_thread, thread_pc, thread_chunk, submitted,
                   provider, sessVars, previous_context, thread_elapsed, worker_op,
                   lockVars, vadVars, recVars, callVars>>

\* stop_streaming_transcription: with self.buffer_lock
StopResetEnter ==
    /\ ctl_pc = "stop_lock"
    /\ LockFree(buffer_lock)
    /\ buffer_lock' = ControlThread
    /\ ctl_pc' = "stop_reset"
    /\ UNCHANGED <<text_buffer, asmRest, streaming_active,
                   streaming_stop_event, streaming_callback,
                   transcription_queue, processing_lock, transcription_thread,
                   thread_pc, thread_chunk, submitted, provider, sessVars,
                   previous_context, thread_elapsed, worker_op, thread_text,
                   ctxVars, vadVars, recVars, callVars>>

\* stop_streaming_transcription: text_buffer and previous_context are
\* reset, the lock is given back and the queue is drained
StopResetExit ==
    /\ ctl_pc = "stop_reset"
    /\ text_buffer' = <<>>
    /\ previous_context' = <<>>
    /\ overlap_buffer' = <<>>
    /\ buffer_lock' = ReleaseLock(buffer_lock)
    /\ transcription_queue' = <<>>
    /\ ctl_pc' = "idle"
    /\ UNCHANGED <<asmRest, streaming_active, streaming_stop_event,
                   streaming_callback, processing_lock, transcription_thread,
                   thread_pc, thread_chunk, submitted, provider,
                   chunk_session, put_pending, audio_op,
                   thread_elapsed, worker_op, thread_text, ctxVars, vadVars,
                   recVars, callVars>>

\* _transcribe_chunk returns in t: a text has been stripped and
\* _update_context has stored the new context; a failure or an empty text
\* ends the chunk
WorkerTranscribed(t) ==
    /\ thread_pc[t] = "backend"
    /\ \E ending \in BackendEndings(provider, thread_elapsed[t]),
          raw \in BackendTexts :
        LET transcribed_text == IF ending = "returned" THEN Strip(raw)
                                ELSE <<>>
            outcome == IF ending # "returned" THEN ending ELSE "blank"
        IN
        /\ ending # "returned" => raw = <<>>
        /\ IF transcribed_text # <<>>
           THEN /\ previous_context' = _update_context(previous_context,
                                                       transcribed_text)
                /\ thread_text' = [thread_text EXCEPT ![t] = transcribed_text]
                /\ thread_pc' = [thread_pc EXCEPT ![t] = "assemble"]
                /\ UNCHANGED <<processing_lock, thread_chunk, worker_op>>
           ELSE /\ thread_pc' = [thread_pc EXCEPT ![t] = AfterChunk(outcome)]
                /\ processing_lock' = 0
                /\ thread_chunk' = [thread_chunk EXCEPT ![t] = 0]
                /\ worker_op' = [outcome |-> outcome, called |-> FALSE]
                /\ UNCHANGED <<previous_context, thread_text>>
    /\ thread_elapsed' = [thread_elapsed EXCEPT ![t] = 0]
    /\ UNCHANGED <<text_buffer, asmRest, streaming_active,
                   streaming_stop_event, streaming_callback,
                   transcription_queue, transcription_thread, submitted,
                   ctl_pc, provider, sessVars, buffer_lock, ctxVars, vadVars, recVars,
                   callVars>>

\* _assemble_text_chunk in t: with self.buffer_lock
WorkerAssembleEnter(t) ==
    /\ thread_pc[t] = "assemble"
    /\ LockFree(buffer_lock)
    /\ buffer_lock' = t
    /\ thread_pc' = [thread_pc EXCEPT ![t] = "assembling"]
    /\ UNCHANGED <<text_buffer, asmRest, streaming_active,
                   streaming_stop_event, streaming_callback,
                   transcription_queue, processing_lock, transcription_thread,
                   thread_chunk, submitted, ctl_pc, provider, sessVars,
                   previous_context, thread_elapsed, worker_op, thread_text,
                   ctxVars, vadVars, recVars, callVars>>

\* _assemble_text_chunk in t: the text is assembled into text_buffer and the
\* lock is given back; then the callback gets the delta and processing_lock
\* is given back
WorkerAssembleExit(t) ==
    /\ thread_pc[t] = "assembling"
    /\ \E callback_raises \in BOOLEAN :
        LET r == _assemble_text_chunk(text_buffer, thread_text[t],
                                      enable_overlap_detection)
            called == CallbackDue(r.delta, streaming_callback)
            outcome == IF called /\ callback_raises THEN "callback_error"
                       ELSE "text"
        IN
        /\ callback_raises => called
        /\ text_buffer' = r.buffer
        /\ thread_pc' = [thread_pc EXCEPT ![t] = AfterChunk(outcome)]
        /\ worker_op' = [outcome |-> outcome, called |-> called]
    /\ buffer_lock' = ReleaseLock(buffer_lock)
    /\ processing_lock' = 0
    /\ thread_chunk' = [thread_chunk EXCEPT ![t] = 0]
    /\ thread_text' = [thread_text EXCEPT ![t] = <<>>]
    /\ UNCHANGED <<asmRest, streaming_active, streaming_stop_event,
                   streaming_callback, transcription_queue,
                   transcription_thread, submitted, ctl_pc, provider, sessVars,
                   previous_context, thread_elapsed, ctxVars, vadVars,
                   recVars, callVars>>

LocksNext ==
    \/ StartFlags
    \/ StartResetEnter
    \/ StartResetExit
    \/ StopStreaming
    \/ StopJoinReturned
    \/ StopResetEnter
    \/ StopResetExit
    \/ ProcessAudioChunk
    \/ \E t \in Threads : WorkerTestStop(t)
    \/ \E t \in Threads : WorkerGet(t)
    \/ \E t \in Threads : WorkerAcquire(t)
    \/ \E t \in Threads : WorkerBackendStep(t)
    \/ \E t \in Threads : WorkerTranscribed(t)
    \/ \E t \in Threads : WorkerAssembleEnter(t)
    \/ \E t \in Threads : WorkerAssembleExit(t)

SpecLocks == StreamInit /\ [][LocksNext]_vars

\* C26 (as stated): every step that changes the transcript or the context is
\* a step of the thread that holds buffer_lock: a thread leaving its
\* assemble call, or the controlling thread leaving a reset.
Orig_C26_WritesUnderLock ==
    [][(text_buffer' # text_buffer \/ previous_context' # previous_context) =>
          \/ /\ buffer_lock = ControlThread
             /\ ctl_pc \in {"start_reset", "stop_reset"}
             /\ ctl_pc' = "idle"
          \/ \E t \in Threads :
                /\ buffer_lock = t
                /\ thread_pc[t] = "assembling"
                /\ thread_pc'[t] # "assembling"]_vars

\* C27 (as stated): buffer_lock is held in no state in which a backend call
\* is in progress.
Orig_C27_NotHeldDuringBackend == buffer_lock # 0 => InBackend = {}

\* C27 (amended): buffer_lock is held only by a thread inside its assemble
\* call or by the controlling thread inside a start or stop reset, and never
\* by a thread that is in a backend call; a reset can hold it while the
\* backend call of a worker thread is in progress.
Thm_C27_NotHeldAcrossBackend ==
    /\ buffer_lock \in Threads => thread_pc[buffer_lock] = "assembling"
    /\ buffer_lock = ControlThread => ctl_pc \in {"start_reset", "stop_reset"}
    /\ buffer_lock \in {0, ControlThread} \cup Threads
    /\ \A t \in Threads : thread_pc[t] = "assembling" => buffer_lock = t
    /\ \A t \in InBackend : buffer_lock # t

\* the reset of a stop whose join timed out holds the lock while the backend
\* call of the thread it gave up on is still in progress
Wit_C27_NotHeldAcrossBackend ==
    /\ buffer_lock = ControlThread
    /\ ctl_pc = "stop_reset"
    /\ transcription_thread \in InBackend
    /\ Cardinality(ConsumerThreads) = 1

(***************************************************************************)
(* The audio overlap window (faster_whisper_provider.py and                *)
(* whisper_cpp_provider.py, the same code in both): _transcribe_chunk      *)
(* sends the stored window followed by the chunk to the backend and keeps  *)
(* the last second of the chunk as the next window; stop clears it.  One   *)
(* iteration of _streaming_processor, from the chunk it takes to the end   *)
(* of its processing, is one step here; a second is overlap_samples        *)
(* samples.                                                                *)
(***************************************************************************)
\* the audio of a chunk: its samples, each its own
ChunkAudio(c, samples) == [i \in 1..samples |-> <<c, i>>]

\* the lengths of the chunks: shorter than a second, a second, longer
ChunkLengths == {1, overlap_samples, overlap_samples + 1}

\* (mutant) the whole chunk is kept as the window
OverlapWindow_WholeChunk(audio_data) == audio_data

\* the window _transcribe_chunk stores: audio_data[-overlap_samples:] of a
\* chunk longer than overlap_samples, else the chunk
OverlapWindow(audio_data) ==
    IF Len(audio_data) > overlap_samples
    THEN SubSeq(audio_data, Len(audio_data) - overlap_samples + 1,
                Len(audio_data))
    ELSE audio_data

\* (mutant) the chunk is sent without the window
OverlapAudio_ChunkOnly(window, audio_data) == audio_data

\* np.concatenate(self.overlap_buffer + [audio_data]), or audio_data with an
\* empty overlap_buffer
OverlapAudio(window, audio_data) ==
    IF window # <<>> THEN window \o audio_data ELSE audio_data

\* one iteration of _streaming_processor in t: a chunk is taken from the
\* queue, _transcribe_chunk builds the audio it sends and stores the window,
\* the backend call ends and the result is processed
TranscribeChunk(t) ==
    /\ thread_pc[t] = "get"
    /\ LockFree(processing_lock)
    /\ submitted < MaxChunks
    /\ submitted' = submitted + 1
    /\ \E samples \in ChunkLengths :
        LET audio_data == ChunkAudio(submitted + 1, samples) IN
        /\ audio_op' = [chunk |-> audio_data, before |-> overlap_buffer,
                        sent |-> OverlapAudio(overlap_buffer, audio_data)]
        /\ overlap_buffer' = OverlapWindow(audio_data)
    /\ \E elapsed \in 0..ChunkDeadlineSteps :
       \E ending \in BackendEndings(provider, elapsed) :
        IF ending = "returned"
        THEN \E raw \in BackendTexts, callback_raises \in BOOLEAN :
                FinishChunk(t, ending, raw, callback_raises)
        ELSE FinishChunk(t, ending, <<>>, FALSE)
    /\ UNCHANGED <<asm_deltas, asm_prev, asm_new, asm_delta, asm_called,
                   asm_words, enable_overlap_detection, streaming_active,
                   streaming_stop_event, streaming_callback,
                   transcription_queue, processing_lock,
                   transcription_thread, thread_chunk, ctl_pc, provider,
                   chunk_session, put_pending, thread_elapsed, lockVars,
                   vadVars, recVars, callVars>>

OverlapNext ==
    \/ StartSession
    \/ StopStreaming
    \/ StopJoined
    \/ \E t \in Threads : WorkerTestStop(t)
    \/ \E t \in Threads : TranscribeChunk(t)

SpecOverlap == StreamInit /\ [][OverlapNext]_vars

\* the last samples of a chunk, a second of them at most
LastSecond(audio_data) ==
    LET n == IF Len(audio_data) < overlap_samples THEN Len(audio_data)
             ELSE overlap_samples
    IN [i \in 1..n |-> audio_data[Len(audio_data) - n + i]]

\* _transcribe_chunk is called in this step
TranscribesChunk == audio_op' # audio_op

\* C31: the stored overlap window is never longer than a second of samples;
\* every call of _transcribe_chunk sends the window stored before it
\* followed by its chunk and leaves as the window the last second of that
\* chunk, the whole chunk when it is shorter.
Thm_C31_OverlapBounded ==
    /\ [](/\ Len(overlap_buffer) <= overlap_samples
          /\ overlap_buffer \in {<<>>, LastSecond(audio_op.chunk)}
          /\ audio_op.sent = audio_op.before \o audio_op.chunk)
    /\ [][TranscribesChunk =>
            /\ audio_op'.before = overlap_buffer
            /\ overlap_buffer' = LastSecond(audio_op'.chunk)
            /\ Len(audio_op'.chunk) <= overlap_samples
                  => overlap_buffer' = audio_op'.chunk]_vars

\* the second chunk, longer than a second, was sent after the whole of the
\* first, which was shorter, and its last second is the window
Wit_C31_OverlapBounded ==
    /\ audio_op.before = <<<<1, 1>>>>
    /\ Len(audio_op.chunk) = overlap_samples + 1
    /\ audio_op.sent = <<<<1, 1>>>> \o audio_op.chunk
    /\ overlap_buffer = SubSeq(audio_op.chunk, 2, overlap_samples + 1)

ProcessAudioChunkTest ==
    /\ submitted < MaxChunks
    /\ put_pending = 0
    /\ submitted' = submitted + 1
    /\ IF streaming_active
       THEN /\ put_pending' = submitted + 1
            /\ chunk_session' = [chunk_session EXCEPT
                                     ![submitted + 1] = transcription_thread]
       ELSE UNCHANGED <<put_pending, chunk_session>>
    /\ UNCHANGED <<streaming_active, streaming_stop_event, streaming_callback,
                   transcription_queue, processing_lock, transcription_thread,
                   thread_pc, thread_chunk, ctl_pc, provider, overlap_buffer,
                   audio_op, lockVars, previous_context, thread_elapsed,
                   worker_op, asmVars, vadVars, recVars, callVars>>

\* process_audio_chunk: self.transcription_queue.put(audio_data.copy())
ProcessAudioChunkPut ==
    /\ put_pending # 0
    /\ transcription_queue' = Append(transcription_queue, put_pending)
    /\ put_pending' = 0
    /\ UNCHANGED <<streaming_active, streaming_stop_event, streaming_callback,
                   processing_lock, transcription_thread, thread_pc,
                   thread_chunk, submitted, ctl_pc, provider, chunk_session,
                   overlap_buffer, audio_op, lockVars, previous_context,
                   thread_elapsed, worker_op, asmVars, vadVars, recVars,
                   callVars>>

SessionNext ==
    \/ StartSession
    \/ StopStreaming
    \/ StopJoined
    \/ ProcessAudioChunkTest
    \/ ProcessAudioChunkPut
    \/ \E t \in Threads : WorkerTestStop(t)
    \/ \E t \in Threads : WorkerGet(t)
    \/ \E t \in Threads : WorkerAcquire(t)
    \/ \E t \in Threads : WorkerBackendStep(t)
    \/ \E t \in Threads : WorkerFinish(t)

SpecSession == StreamInit /\ [][SessionNext]_vars

\* C35 (as stated): once stop_streaming_transcription has returned and until
\* the next start the queue is empty, whatever process_audio_chunk call runs
\* next to it.
Orig_C35_QueueClosedAfterStop ==
    (ctl_pc = "idle" /\ ~streaming_active) => transcription_queue = <<>>

\* C36 (as stated): a thread that leaves its backend call hands a delta to
\* the callback, or appends it to the transcript, only in the session in
\* which its chunk was submitted.
Orig_C36_NoCrossSessionText ==
    [][\A t \in Threads :
          (LeavesBackend(t)
           /\ (worker_op'.called \/ text_buffer' # text_buffer))
             => chunk_session[thread_chunk[t]] = transcription_thread]_vars

====
